---- MODULE Spec2Model ----
(***************************************************************************)
(* Model of the lectionary builder (miggalvez/lectionary).                  *)
(*                                                                         *)
(* Four parts of the program are modelled, each with its own specification *)
(* over the same variables:                                                *)
(*   SpecWalk   processReference / processEntity / compareVerses of        *)
(*              src/src/index.js (verse enumeration, one loop iteration    *)
(*              of the range walk per step)                                *)
(*   SpecBatch  extractReadingsFromHTML / processReadingRow / main of      *)
(*              src/src/index.js (rows to written output)                  *)
(*   SpecMatch  findMatchingRomcalDay of src/src/index.js                  *)
(*   SpecNorm   processReference of the CSV build (src/unnamed/part_001,   *)
(*              lines 358-508), on character sequences                     *)
(***************************************************************************)
EXTENDS Integers, Sequences, FiniteSets, TLC

VARIABLES
    \* ---- verse enumeration (index.js processReference/processEntity)
    entities,    \* parsingResult.parsed_entities(): the entities still to do are entities[ei..]
    ei,          \* index of the entity being processed
    wpc,         \* "idle" | "next" | "walk" | "done"
    cur,         \* <<currentBook, currentChapter, currentVerse>> of the range walk
    verses,      \* the Set `verses`, in insertion order
    walkIter,    \* iterations of the while(true) loop taken by the current walk
    overran,     \* history: the walk left the loop at line 110 (end of the table)
    result,      \* what processReference returned (Pending, ReturnedNull or Returned(range))
    \* ---- rows to output (index.js extractReadingsFromHTML/main)
    rows,        \* the table rows of the input file (after the header row)
    ri,          \* the row extractReadingsFromHTML is at
    bpc,         \* "idle" | "extract" | "merge" | "match" | "write" | "done"
    readings,    \* extractReadingsFromHTML's `readings`: <<cycle key, readingInfos>> in key order
    allReadings, \* main's allReadings, by cycle letter
    output,      \* main's output: the groups of liturgical days
    written,     \* fs.writeFileSync(outputPath, ...) was reached
    runError,    \* main's catch (error) was reached
    \* ---- matcher (index.js findMatchingRomcalDay)
    calendar,    \* romcalCalendar: sequence of <<date, day>> in Object.entries order
    desc,        \* the arguments of the call
    mpc,         \* "idle" | "call" | "done"
    matched,     \* the returned day, or Null
    \* ---- normalizer (part_001 processReference)
    cell,        \* the raw citation cell: its text, a sequence of characters, and
                 \* what the text was written from (candidates, title, blocks)
    slot,        \* the reading slot of the row the cell is in
    isGospel,
    cycle,
    parser,      \* what bcv.parse(...).osis() does for the i-th candidate
    npc,         \* "idle" | "call" | "done"
    options,     \* the returned readingOptions
    \* --- the CSV build (src/unnamed/part_001, main)
    csvFiles,            \* the input files, each the sequence of its rows
    cfi,                 \* index of the file the loop of line 1067 is at
    cpc,                 \* "idle" | "extract" | "weekdays" | "sort" | "done" | "lookup"
    csvAllReadings,      \* allReadings (line 1065)
    csvOutput,           \* output.cycles: the five groups
    romcalDefinitions,   \* definitions (line 1011), in the order of Object.values
    computedProperties,  \* computedPropertiesMap (line 1019)
    givenCatalogue,      \* the catalogue as main built it
    lookupLog,           \* the look-ups made, each with what it returned
    \* --- the Sunday build (src/unnamed/part_002)
    feastCatalogue,      \* definitions (line 1005), in the order of Object.values
    feastReading,        \* <<reading>>: the reading the loop of line 1088 is at
    feastKeywords,       \* the keywords of a call of findFeastByKeywords
    fpc,                 \* "idle" | "attach" | "attached" | "keywords" | "scored"
    feastDay,            \* <<liturgicalDay>> pushed for the reading, <<>> for none
    keywordMatch         \* <<definition>> returned by findFeastByKeywords, <<>> for null

walkVars  == <<entities, ei, wpc, cur, verses, walkIter, overran, result>>
batchVars == <<rows, ri, bpc, readings, allReadings, output, written, runError>>
matchVars == <<calendar, desc, mpc, matched>>
normVars  == <<cell, slot, isGospel, cycle, parser, npc, options>>
csvVars   == <<csvFiles, cfi, cpc, csvAllReadings, csvOutput, romcalDefinitions,
               computedProperties, givenCatalogue, lookupLog>>
feastVars == <<feastCatalogue, feastReading, feastKeywords, fpc, feastDay, keywordMatch>>
vars == <<walkVars, batchVars, matchVars, normVars, csvVars, feastVars>>

\* ------------------------------------------------------------------------
\* Sequence helpers
\* ------------------------------------------------------------------------
Range(s) == {s[i] : i \in 1..Len(s)}

\* Array.prototype.indexOf, 0-based, -1 when absent
IndexOf(s, x) ==
    IF \E i \in 1..Len(s) : s[i] = x
    THEN (CHOOSE i \in 1..Len(s) : s[i] = x /\ \A j \in 1..(i - 1) : s[j] # x) - 1
    ELSE -1

RECURSIVE SumSeq(_)
SumSeq(s) == IF s = <<>> THEN 0 ELSE Head(s) + SumSeq(Tail(s))

\* ------------------------------------------------------------------------
\* BoundaryTable: bcv.translation_info(translation)
\* ------------------------------------------------------------------------
\* .books: the ordered book list (a three-book table stands for the NAB canon)
Books == <<"Gen", "Exod", "Rev">>

\* .chapters: per book, the verse count of each chapter
Chapters == [Gen |-> <<2, 3>>, Exod |-> <<2>>, Rev |-> <<1, 2>>]

\* a book name the table does not have
UnknownBook == "Enoch"

KnownBooks == Range(Books)

TotalVerses == SumSeq(Chapters["Gen"]) + SumSeq(Chapters["Exod"]) + SumSeq(Chapters["Rev"])

\* bounds of the chapter and verse numbers an entity may carry
MaxChapterNum == 3

MaxVerseNum == 4


\* ------------------------------------------------------------------------
\* Verse enumeration: processReference, processEntity, compareVerses
\* (src/src/index.js lines 34-166)
\* ------------------------------------------------------------------------
AnyBooks == KnownBooks \cup {UnknownBook}

\* `${book}.${chapter}.${verse}${versePart}`: the string is determined by, and
\* determines, the four parts
VerseKey(b, c, v, p) == <<b, c, v, p>>

\* Set.prototype.add on the insertion-ordered Set
SetAdd(s, x) == IF x \in Range(s) THEN s ELSE Append(s, x)

\* chapters[book][chapter - 1] is a number (not undefined)
HasChapter(b, c) == c >= 1 /\ c <= Len(Chapters[b])

\* entity.start.partial_verse || ''
VersePart(e) == e.start.partial_verse

\* line 97: the walk has reached the end identifier
AtEnd(pos, e) == pos[1] = e.end.b /\ pos[2] = e.end.c /\ pos[3] = e.end.v

\* lines 107-112: currentChapter has been incremented past a chapter's last verse
RollChapter(b, c) ==
    IF c > Len(Chapters[b])
    THEN LET bookIndex == IndexOf(Books, b)
         IN  IF bookIndex < 0 \/ bookIndex >= Len(Books) - 1
             THEN [stop |-> TRUE, pos |-> <<b, 1, 1>>]
             ELSE [stop |-> FALSE, pos |-> <<Books[bookIndex + 2], 1, 1>>]
    ELSE [stop |-> FALSE, pos |-> <<b, c, 1>>]

\* Advance with the roll-over test off by one (>= for >)
Advance_RollsEarly(pos) ==
    LET b == pos[1]
        c == pos[2]
        v == pos[3] + 1
    IN  IF HasChapter(b, c) /\ v >= Chapters[b][c]
        THEN RollChapter(b, c + 1)
        ELSE [stop |-> FALSE, pos |-> <<b, c, v>>]

\* lines 101-113: advance to the next verse.  `currentVerse > maxVerse` is false
\* when maxVerse is undefined (the chapter is not in the table).
Advance(pos) ==
    LET b == pos[1]
        c == pos[2]
        v == pos[3] + 1
    IN  IF HasChapter(b, c) /\ v > Chapters[b][c]
        THEN RollChapter(b, c + 1)
        ELSE [stop |-> FALSE, pos |-> <<b, c, v>>]

\* compareVerses with the chapter compared before the book
compareVerses_ChapterFirst(a, b) ==
    IF a[2] # b[2] THEN a[2] - b[2]
    ELSE IF IndexOf(Books, a[1]) # IndexOf(Books, b[1])
    THEN IndexOf(Books, a[1]) - IndexOf(Books, b[1])
    ELSE a[3] - b[3]

\* lines 155-166
compareVerses(a, b) ==
    LET aBookIndex == IndexOf(Books, a[1])
        bBookIndex == IndexOf(Books, b[1])
    IN  IF aBookIndex # bBookIndex THEN aBookIndex - bBookIndex
        ELSE IF a[2] # b[2] THEN a[2] - b[2]
        ELSE a[3] - b[3]

\* Array.prototype.sort(compareVerses): the sort is stable
RECURSIVE InsertSorted(_, _)
InsertSorted(x, s) ==
    IF s = <<>> THEN <<x>>
    ELSE IF compareVerses(x, s[Len(s)]) >= 0 THEN Append(s, x)
    ELSE Append(InsertSorted(x, SubSeq(s, 1, Len(s) - 1)), s[Len(s)])

RECURSIVE SortVerses(_)
SortVerses(s) ==
    IF s = <<>> THEN <<>>
    ELSE InsertSorted(s[Len(s)], SortVerses(SubSeq(s, 1, Len(s) - 1)))

\* lines 119-126: a whole chapter ("bc")
RECURSIVE AddVerses(_, _, _, _, _)
AddVerses(s, b, c, from, to) ==
    IF from > to THEN s
    ELSE AddVerses(SetAdd(s, VerseKey(b, c, from, "")), b, c, from + 1, to)

\* ChapterVerses with the loop ended one verse early (< for <=)
ChapterVerses_OneShort(s, b, c) ==
    IF HasChapter(b, c) THEN AddVerses(s, b, c, 1, Chapters[b][c] - 1) ELSE s

ChapterVerses(s, b, c) ==
    IF HasChapter(b, c) THEN AddVerses(s, b, c, 1, Chapters[b][c]) ELSE s

\* lines 127-136: a whole book ("b")
RECURSIVE BookVerses(_, _, _)
BookVerses(s, b, c) ==
    IF c > Len(Chapters[b]) THEN s
    ELSE BookVerses(ChapterVerses(s, b, c), b, c + 1)

\* what processReference returned: nothing yet, null (lines 35, 67), or the
\* object of lines 60-64, of which the model keeps `range`
Pending == [ret |-> "pending", range |-> <<>>]

ReturnedNull == [ret |-> "null", range |-> <<>>]

Returned(r) == [ret |-> "object", range |-> r]

\* ---- the entities the parser may hand over
Letters == {"", "a"}

MkEntity(t, sb, sc, sv, sp, eb, ec, ev) ==
    [type |-> t,
     start |-> [b |-> sb, c |-> sc, v |-> sv, partial_verse |-> sp],
     end |-> [b |-> eb, c |-> ec, v |-> ev]]

RangeEntities ==
    {MkEntity("range", sb, sc, sv, sp, eb, ec, ev) :
        sb \in AnyBooks, sc \in 1..MaxChapterNum, sv \in 1..MaxVerseNum, sp \in Letters,
        eb \in AnyBooks, ec \in 1..MaxChapterNum, ev \in 1..MaxVerseNum}

SimpleEntities ==
    {MkEntity("bcv", b, c, v, p, b, c, v) : b \in AnyBooks, c \in 1..2, v \in 1..2, p \in Letters}
    \cup {MkEntity("bc", b, c, 1, "", b, c, 1) : b \in AnyBooks, c \in 1..MaxChapterNum}
    \cup {MkEntity("b", b, 1, 1, "", b, 1, 1) : b \in AnyBooks}

\* a citation is one entity, or two of the simple ones in either order
EntityLists ==
    {<<e>> : e \in RangeEntities \cup SimpleEntities}
    \cup {<<e1, e2>> : e1 \in SimpleEntities, e2 \in SimpleEntities}

\* no walk that ends takes more iterations than this: its start position, then
\* each verse of the table at most once, or the verses up to the end identifier
\* inside one chapter the table does not have
WalkBound == TotalVerses + MaxVerseNum + 2

\* the model follows a walk this far
MaxWalkIter == WalkBound + 2

WalkIdle ==
    /\ entities = <<>> /\ ei = 0 /\ wpc = "idle" /\ cur = <<>> /\ verses = <<>>
    /\ walkIter = 0 /\ overran = FALSE /\ result = Pending

\* processReference is entered with a parsed citation (lines 38-42)
WalkInit ==
    /\ entities \in EntityLists
    /\ ei = 1 /\ wpc = "next" /\ cur = <<>> /\ verses = <<>>
    /\ walkIter = 0 /\ overran = FALSE /\ result = Pending

\* lines 79-90: a range entity; the walk starts at entity.start
StartRange ==
    /\ wpc = "next" /\ ei <= Len(entities)
    /\ entities[ei].type = "range"
    /\ cur' = <<entities[ei].start.b, entities[ei].start.c, entities[ei].start.v>>
    /\ wpc' = "walk"
    /\ walkIter' = 0
    /\ UNCHANGED <<entities, ei, verses, overran, result>>
    /\ UNCHANGED <<batchVars, matchVars, normVars, csvVars, feastVars>>

\* lines 92-114: one iteration of while (true).  chapters[currentBook] is
\* undefined for a book the table lacks, and indexing it throws; the throw is
\* caught at line 65 and processReference returns null.
WalkStep ==
    /\ wpc = "walk"
    /\ walkIter < MaxWalkIter
    /\ LET e == entities[ei]
       IN  /\ verses' = SetAdd(verses, VerseKey(cur[1], cur[2], cur[3], VersePart(e)))
           /\ walkIter' = walkIter + 1
           /\ IF AtEnd(cur, e)
              THEN /\ wpc' = "next" /\ ei' = ei + 1
                   /\ UNCHANGED <<cur, overran, result>>
              ELSE IF cur[1] \notin KnownBooks
              THEN /\ wpc' = "done" /\ result' = ReturnedNull
                   /\ UNCHANGED <<cur, ei, overran>>
              ELSE LET a == Advance(cur)
                   IN  /\ cur' = a.pos
                       /\ IF a.stop
                          THEN wpc' = "next" /\ ei' = ei + 1 /\ overran' = TRUE
                          ELSE UNCHANGED <<wpc, ei, overran>>
                       /\ UNCHANGED result
    /\ UNCHANGED entities
    /\ UNCHANGED <<batchVars, matchVars, normVars, csvVars, feastVars>>

\* lines 115-136: a single verse, a whole chapter or a whole book
EnumerateEntity ==
    /\ wpc = "next" /\ ei <= Len(entities)
    /\ LET e == entities[ei]
       IN  /\ e.type \in {"bcv", "bc", "b"}
           /\ IF e.type = "bcv"
              THEN /\ verses' = SetAdd(verses, VerseKey(e.start.b, e.start.c, e.start.v, VersePart(e)))
                   /\ ei' = ei + 1
                   /\ UNCHANGED <<wpc, result>>
              ELSE IF e.start.b \notin KnownBooks
              THEN /\ wpc' = "done" /\ result' = ReturnedNull
                   /\ UNCHANGED <<verses, ei>>
              ELSE /\ verses' = IF e.type = "bc"
                                THEN ChapterVerses(verses, e.start.b, e.start.c)
                                ELSE BookVerses(verses, e.start.b, 1)
                   /\ ei' = ei + 1
                   /\ UNCHANGED <<wpc, result>>
    /\ UNCHANGED <<entities, cur, walkIter, overran>>
    /\ UNCHANGED <<batchVars, matchVars, normVars, csvVars, feastVars>>

\* lines 47-64: every entity is done; the sorted verse list is returned
ReturnRange ==
    /\ wpc = "next" /\ ei > Len(entities)
    /\ result' = Returned(SortVerses(verses))
    /\ wpc' = "done"
    /\ UNCHANGED <<entities, ei, cur, verses, walkIter, overran>>
    /\ UNCHANGED <<batchVars, matchVars, normVars, csvVars, feastVars>>


\* ------------------------------------------------------------------------
\* Day matching: findMatchingRomcalDay (src/src/index.js lines 418-541)
\* ------------------------------------------------------------------------
\* An id is the sequence of its words ("christmas_1" is <<"christmas", "1">>);
\* String.prototype.includes is containment of a contiguous run of words.
Includes(s, t) ==
    \E i \in 0..(Len(s) - Len(t)) : \A j \in 1..Len(t) : s[i + j] = t[j]

NoValue == "none"

NoWeek == 0

\* a date 'MM-DD' is the number MMDD; null is NoDate
NoDate == 0

\* line 458: const year = '2025'
CalendarYear == 2025

\* lines 424-434: idMap (identifier -> romcal id)
idMap ==
    [christmas_vigil     |-> <<"christmas", "vigil">>,
     christmas_night     |-> <<"christmas", "1">>,
     christmas_dawn      |-> <<"christmas", "2">>,
     christmas_day       |-> <<"christmas", "3">>,
     christmas           |-> <<"christmas">>,
     holy_family         |-> <<"holy", "family">>,
     mary_mother_of_god  |-> <<"mary", "mother", "of", "god">>,
     epiphany            |-> <<"epiphany">>,
     baptism_of_the_lord |-> <<"baptism", "of", "the", "lord">>]

\* a catalogue day (days[0] of a calendar date), with the fields the matcher reads
Day(key, id, season, week, dow, cyc, wcyc, from) ==
    [key |-> key, id |-> id, season |-> season, week |-> week, dayOfWeek |-> dow,
     sundayCycle |-> cyc, weekdayCycle |-> wcyc, fromCalendarId |-> from]

\* the day of calendar entry i
DayAt(cal, i) == cal[i]

\* for (... of Object.entries(romcalCalendar)) { if (test) return day }: the
\* first of the indices whose day passes the test (hits), 0 when the loop ends
\* without a return
FirstDay(hits) ==
    IF hits # {} THEN CHOOSE i \in hits : \A j \in hits : i <= j ELSE 0

\* lines 422-449: direct match by identifier
MatchByIdentifier(cal, d) ==
    IF d.identifier # NoValue /\ d.identifier \in DOMAIN idMap
    THEN LET romcalId == idMap[d.identifier]
             Hit(day) == day.id = romcalId \/ Includes(day.id, romcalId)
         IN  FirstDay({i \in 1..Len(cal) : Hit(cal[i])})
    ELSE 0

\* lines 452-469: match by date; the calendar is keyed by `${year}-${month}-${day}`
\* with year '2025'
MatchByDate(cal, d) ==
    IF d.date # NoDate
    THEN LET Hit(day) == day.key = <<CalendarYear, d.date>>
         IN  FirstDay({i \in 1..Len(cal) : Hit(cal[i])})
    ELSE 0

\* romcalWeek === parseInt(weekNumber): parseInt(null) is NaN, equal to nothing
WeekEq(romcalWeek, weekNumber) == weekNumber # NoWeek /\ romcalWeek = weekNumber

\* lines 475-502: exact match by season, week number and cycle, Sundays only
MatchExact(cal, d) ==
    LET Hit(day) ==
            /\ day.dayOfWeek = 0
            /\ day.season # NoValue /\ day.week # NoWeek /\ d.season # NoValue
            /\ day.season = d.season
            /\ WeekEq(day.week, d.weekNumber)
            /\ day.sundayCycle = d.cycle
    IN  FirstDay({i \in 1..Len(cal) : Hit(cal[i])})

\* lines 522-535: the loop "by name and season"; both branches return the first
\* day whose season is the normalized season
MatchBySeason(cal, d) ==
    LET Hit(day) == day.season = d.season
    IN  FirstDay({i \in 1..Len(cal) : Hit(cal[i])})

\* lines 507-536: the loop "by season and week number".  The loop of lines
\* 522-535 is inside its body, after the test of the entry at hand.
RECURSIVE MatchFallback(_, _, _)
MatchFallback(cal, d, i) ==
    IF i > Len(cal) THEN 0
    ELSE IF /\ cal[i].dayOfWeek = 0
            /\ cal[i].season = d.season
            /\ WeekEq(cal[i].week, d.weekNumber)
         THEN i
    ELSE IF MatchBySeason(cal, d) # 0 THEN MatchBySeason(cal, d)
    ELSE MatchFallback(cal, d, i + 1)

\* lines 418-541: the index of the day returned, 0 for null
findMatchingRomcalDay(cal, d) ==
    IF MatchByIdentifier(cal, d) # 0 THEN MatchByIdentifier(cal, d)
    ELSE IF MatchByDate(cal, d) # 0 THEN MatchByDate(cal, d)
    ELSE IF MatchExact(cal, d) # 0 THEN MatchExact(cal, d)
    ELSE IF d.season # NoValue THEN MatchFallback(cal, d, 1)
    ELSE 0

\* ---- the catalogue days and descriptions of the model
CatalogueDays ==
    {Day(<<2025, 1130>>, <<"advent", "1", "sunday">>, "ADVENT", 1, 0, "A", NoValue, "temporale"),
     Day(<<2025, 1129>>, <<"advent", "1", "sunday">>, "ADVENT", 1, 0, "B", NoValue, "temporale"),
     Day(<<2025, 1207>>, <<"advent", "2", "sunday">>, "ADVENT", 2, 0, "A", NoValue, "temporale"),
     Day(<<2025, 1203>>, <<"advent", "1", "wednesday">>, "ADVENT", 1, 3, "A", "II", "temporale"),
     Day(<<2025, 1228>>, <<"holy", "family">>, "CHRISTMAS_TIME", 1, 0, "A", NoValue, "temporale"),
     Day(<<2025, 1225>>, <<"christmas", "3">>, "CHRISTMAS_TIME", NoWeek, 4, "A", NoValue, "temporale"),
     Day(<<2025, 704>>, <<"independence", "day">>, NoValue, NoWeek, 5, "B", NoValue, "properOfSaints")}

\* the longest calendar of the model
MaxCalendar == 3

RECURSIVE DistinctSeqs(_, _)
DistinctSeqs(S, n) ==
    IF n = 0 THEN {<<>>}
    ELSE LET shorter == DistinctSeqs(S, n - 1)
         IN  shorter \cup {Append(q, x) : q \in {r \in shorter : Len(r) = n - 1}, x \in S}

\* Object.entries order; the dates are the keys of an object, so no two are equal
Calendars ==
    {c \in DistinctSeqs(CatalogueDays, MaxCalendar) :
        \A i, j \in 1..Len(c) : i # j => c[i].key # c[j].key}

Descriptions ==
    [date : {NoDate, 1225, 1203},
     season : {NoValue, "ADVENT", "CHRISTMAS_TIME"},
     weekNumber : {NoWeek, 1, 2},
     dayOfWeek : {NoValue, "Sunday"},
     cycle : {"A", "B"},
     identifier : {NoValue, "christmas", "holy_family"}]

MatchIdle == calendar = <<>> /\ desc = <<>> /\ mpc = "idle" /\ matched = <<>>

MatchInit ==
    /\ calendar \in Calendars
    /\ desc \in Descriptions
    /\ mpc = "call"
    /\ matched = <<>>

\* one call of findMatchingRomcalDay; `matched` is <<>> for null, <<day>> otherwise
CallMatcher ==
    /\ mpc = "call"
    /\ LET i == findMatchingRomcalDay(calendar, desc)
       IN  matched' = IF i = 0 THEN <<>> ELSE <<DayAt(calendar, i)>>
    /\ mpc' = "done"
    /\ UNCHANGED <<calendar, desc>>
    /\ UNCHANGED <<walkVars, batchVars, normVars, csvVars, feastVars>>

\* ------------------------------------------------------------------------
\* Rows to output: extractReadingsFromHTML, processReadingRow, main
\* (src/src/index.js lines 168-415 and 543-836)
\* ------------------------------------------------------------------------
\* A day description (dayText) is the sequence of its words; a dash set off by
\* spaces is a word.  The cycle letters of lines 201 and 207 are matched with
\* [ABC]+, which accepts these words of the model's vocabulary.
CycleWords == {"A", "B", "C", "AB", "ABC"}

HeaderText == <<"Sunday", "or", "Feast", "-", "Year">>

\* lines 197-211: the cycle tag of a description, null when it has none
CycleOf(dayText) ==
    LET n == Len(dayText)
    IN  IF n >= 2 /\ dayText[n - 1] = "-" /\ dayText[n] \in CycleWords
        THEN dayText[n]
        ELSE IF \E i \in 1..n : dayText[i] \in CycleWords
        THEN dayText[CHOOSE i \in 1..n :
                        dayText[i] \in CycleWords /\ \A j \in 1..(i - 1) : dayText[j] \notin CycleWords]
        ELSE NoValue

\* the number of an ordinal word, 0 for other words: (\d+)(?:st|nd|rd|th)
Ordinal(w) ==
    CASE w = "1st" -> 1 [] w = "2nd" -> 2 [] w = "3rd" -> 3 [] w = "4th" -> 4 [] OTHER -> 0

HasWords(dayText, ws) == Includes(dayText, ws)

\* lines 279-287: the week number of "<n>th Sunday of Advent", else null
AdventWeek(dayText) ==
    LET Hit(i) == /\ i + 3 <= Len(dayText)
                  /\ Ordinal(dayText[i]) # 0
                  /\ SubSeq(dayText, i + 1, i + 3) = <<"Sunday", "of", "Advent">>
    IN  IF \E i \in 1..Len(dayText) : Hit(i)
        THEN Ordinal(dayText[CHOOSE i \in 1..Len(dayText) : Hit(i) /\ \A j \in 1..(i - 1) : ~Hit(j)])
        ELSE NoWeek

ChristmasText(dayText) ==
    \/ HasWords(dayText, <<"Christmas">>) \/ HasWords(dayText, <<"Nativity">>)
    \/ HasWords(dayText, <<"Holy", "Family">>) \/ HasWords(dayText, <<"Mother", "of", "God">>)
    \/ HasWords(dayText, <<"Epiphany">>) \/ HasWords(dayText, <<"Baptism", "of", "the", "Lord">>)

\* lines 278-295
SeasonOf(dayText) ==
    IF HasWords(dayText, <<"Advent">>) THEN "ADVENT"
    ELSE IF ChristmasText(dayText) THEN "CHRISTMAS_TIME"
    ELSE NoValue

\* lines 302-328
IdentifierOf(dayText) ==
    IF HasWords(dayText, <<"Nativity", "of", "the", "Lord">>) \/ HasWords(dayText, <<"Christmas">>)
    THEN IF HasWords(dayText, <<"Vigil">>) THEN "christmas_vigil"
         ELSE IF HasWords(dayText, <<"Night">>) THEN "christmas_night"
         ELSE IF HasWords(dayText, <<"Dawn">>) THEN "christmas_dawn"
         ELSE IF HasWords(dayText, <<"Day">>) THEN "christmas_day"
         ELSE "christmas"
    ELSE IF HasWords(dayText, <<"Holy", "Family">>) THEN "holy_family"
    ELSE IF HasWords(dayText, <<"Mother", "of", "God">>) THEN "mary_mother_of_god"
    ELSE IF HasWords(dayText, <<"Epiphany">>) THEN "epiphany"
    ELSE IF HasWords(dayText, <<"Baptism", "of", "the", "Lord">>) THEN "baptism_of_the_lord"
    ELSE NoValue

\* lines 254-262: a date cell <<month, day, year>> ("12/24/24") becomes 'MM-DD';
\* an empty cell is <<>>
RowDate(date) == IF date = <<>> THEN NoDate ELSE date[1] * 100 + date[2]

\* lines 331-398: the options pushed for one citation cell.  A cell is null
\* (empty or '(no bibl. ref.)') or the sequence of its "or" candidates, each
\* "ok" (parsed), "unparsed" (empty OSIS) or "throws" (processReference
\* returns null); only the latter is dropped.
RECURSIVE PushOptions(_, _)
PushOptions(cands, i) ==
    IF i > Len(cands) THEN <<>>
    ELSE (IF cands[i] = "throws" THEN <<>>
          ELSE <<[osis |-> IF cands[i] = "ok" THEN "osis" ELSE "", reference |-> i]>>)
         \o PushOptions(cands, i + 1)

\* lines 230-252, 264-406: the readingInfo of a row for one cycle
ReadingInfo(row, cyc) ==
    [date |-> RowDate(row.date),
     cycle |-> cyc,
     weekNumber |-> AdventWeek(row.dayText),
     season |-> SeasonOf(row.dayText),
     dayOfWeek |-> IF AdventWeek(row.dayText) # NoWeek THEN "Sunday" ELSE NoValue,
     identifier |-> IdentifierOf(row.dayText),
     readings |-> [first_reading      |-> PushOptions(row.cells[1], 1),
                   responsorial_psalm |-> PushOptions(row.cells[2], 1),
                   second_reading     |-> PushOptions(row.cells[3], 1),
                   gospel_acclamation |-> PushOptions(row.cells[4], 1),
                   gospel             |-> PushOptions(row.cells[5], 1)]]

\* lines 408-414: readings[cycle].push(readingInfo), creating the array if needed
PushReading(rs, key, info) ==
    IF \E i \in 1..Len(rs) : rs[i][1] = key
    THEN [i \in 1..Len(rs) |-> IF rs[i][1] = key THEN <<key, Append(rs[i][2], info)>> ELSE rs[i]]
    ELSE Append(rs, <<key, <<info>>>>)

\* lines 230-232 and 408-414: processReadingRow; `cycle = cycle || 'A'`
processReadingRow(rs, row, cyc) ==
    LET c == IF cyc = NoValue THEN "A" ELSE cyc
    IN  PushReading(rs, c, ReadingInfo(row, c))

\* lines 177-223: one row of the table
ExtractedRow(rs, row) ==
    IF row.dayText = <<>> \/ HasWords(row.dayText, HeaderText) THEN rs
    ELSE IF CycleOf(row.dayText) = "ABC"
    THEN processReadingRow(processReadingRow(processReadingRow(rs, row, "A"), row, "B"), row, "C")
    ELSE processReadingRow(rs, row, CycleOf(row.dayText))

SundayCycles == {"A", "B", "C"}

\* lines 612-616: the merge by cycle; allReadings has the keys A, B and C only, and
\* allReadings[cycle].push throws for any other key
RECURSIVE MergeFrom(_, _, _)
MergeFrom(rs, i, all) ==
    IF i > Len(rs) THEN [threw |-> FALSE, all |-> all]
    ELSE IF rs[i][1] \notin SundayCycles THEN [threw |-> TRUE, all |-> all]
    ELSE MergeFrom(rs, i + 1, [all EXCEPT ![rs[i][1]] = @ \o rs[i][2]])

\* normalizeDate (lines 13-19) of a romcal date 'YYYY-MM-DD': its last four digits
normalizeDate(key) == (key[1] * 10000 + key[2]) % 10000

\* lines 641-657, 679-695: the liturgicalDay built from a romcal day (x || null
\* is null for 0)
LiturgicalDay(day, rd) ==
    [identifier |-> day.id,
     season |-> day.season,
     week |-> day.week,
     dayOfWeek |-> IF day.dayOfWeek = 0 THEN NoValue ELSE "weekday",
     date |-> normalizeDate(day.key),
     readings |-> rd]

NoReadings ==
    [first_reading |-> <<>>, responsorial_psalm |-> <<>>, second_reading |-> <<>>,
     gospel_acclamation |-> <<>>, gospel |-> <<>>]

\* lines 628-668: the readings of one cycle, matched and pushed in order
RECURSIVE MatchedDays(_, _, _, _)
MatchedDays(cal, rds, i, cyc) ==
    IF i > Len(rds) THEN <<>>
    ELSE LET d == [date |-> rds[i].date, season |-> rds[i].season,
                   weekNumber |-> rds[i].weekNumber, dayOfWeek |-> rds[i].dayOfWeek,
                   cycle |-> cyc, identifier |-> rds[i].identifier]
             m == findMatchingRomcalDay(cal, d)
         IN  (IF m = 0 THEN <<>> ELSE <<LiturgicalDay(cal[m], rds[i].readings)>>)
             \o MatchedDays(cal, rds, i + 1, cyc)

\* line 676
IsWeekday(day) == day.weekdayCycle \in {"I", "II"}

\* lines 676-800: the group of the output a calendar day goes to: its weekday
\* cycle, else the calendar it comes from
GroupOf(day) == IF IsWeekday(day) THEN day.weekdayCycle ELSE day.fromCalendarId

\* lines 673-800: the days of the calendar that go to group g, in calendar
\* order, with empty reading lists
CalendarDays(cal, g) ==
    LET InGroup(day) == GroupOf(day) = g
        sel == SelectSeq(cal, InGroup)
    IN  [i \in 1..Len(sel) |-> LiturgicalDay(sel[i], NoReadings)]

\* lines 673-800: the groups filled from the calendar
WithCalendarDays(out, cal) ==
    [out EXCEPT
        !.weekdays = [c \in {"I", "II"} |-> CalendarDays(cal, c)],
        !.properOfSaints = CalendarDays(cal, "properOfSaints"),
        !.commons = CalendarDays(cal, "commons"),
        !.ritualMasses = CalendarDays(cal, "ritualMasses"),
        !.votiveMasses = CalendarDays(cal, "votiveMasses"),
        !.massesForTheDead = CalendarDays(cal, "massesForTheDead")]

\* lines 816-827: arr.sort(sortByDate), a stable sort by 'MM-DD'
RECURSIVE InsertByDate(_, _)
InsertByDate(x, s) ==
    IF s = <<>> THEN <<x>>
    ELSE IF x.date >= s[Len(s)].date THEN Append(s, x)
    ELSE Append(InsertByDate(x, SubSeq(s, 1, Len(s) - 1)), s[Len(s)])

RECURSIVE SortByDate(_)
SortByDate(s) ==
    IF s = <<>> THEN <<>>
    ELSE InsertByDate(s[Len(s)], SortByDate(SubSeq(s, 1, Len(s) - 1)))

\* lines 548-560
EmptyOutput ==
    [sundays |-> [c \in SundayCycles |-> <<>>],
     weekdays |-> [c \in {"I", "II"} |-> <<>>],
     properOfSaints |-> <<>>, commons |-> <<>>, ritualMasses |-> <<>>,
     votiveMasses |-> <<>>, massesForTheDead |-> <<>>]

EmptyReadings == [c \in SundayCycles |-> <<>>]

\* lines 820-827: every group sorted by date
Sorted(out) ==
    [sundays |-> [c \in SundayCycles |-> SortByDate(out.sundays[c])],
     weekdays |-> [c \in {"I", "II"} |-> SortByDate(out.weekdays[c])],
     properOfSaints |-> SortByDate(out.properOfSaints),
     commons |-> SortByDate(out.commons),
     ritualMasses |-> SortByDate(out.ritualMasses),
     votiveMasses |-> SortByDate(out.votiveMasses),
     massesForTheDead |-> SortByDate(out.massesForTheDead)]

\* ---- the rows and the calendar of the model
Row(dayText, date, cells) == [dayText |-> dayText, date |-> date, cells |-> cells]

DayTexts ==
    {<<"1st", "Sunday", "of", "Advent", "-", "A">>,
     <<"2nd", "Sunday", "of", "Advent", "-", "B">>,
     <<"1st", "Sunday", "of", "Advent", "-", "ABC">>,
     <<"1st", "Sunday", "of", "Advent", "-", "AB">>,
     <<"2nd", "Sunday", "of", "Advent">>,
     <<"Holy", "Family", "-", "C">>,
     <<"Pentecost", "-", "B">>,
     <<>>}

\* the five citation cells of a row
CellSets ==
    {<<<<"ok">>, <<"ok">>, <<"ok">>, <<"ok">>, <<"ok">>>>,
     <<<<"ok">>, <<"unparsed">>, <<"ok", "throws">>, <<>>, <<"throws">>>>,
     <<<<>>, <<"ok">>, <<>>, <<"ok">>, <<"ok", "ok">>>>}

RowSet == {Row(t, <<>>, c) : t \in DayTexts, c \in CellSets}

\* the most rows of an input file
MaxRows == 2

RECURSIVE SeqsUpTo(_, _)
SeqsUpTo(S, n) ==
    IF n = 0 THEN {<<>>}
    ELSE LET shorter == SeqsUpTo(S, n - 1)
         IN  shorter \cup {Append(q, x) : q \in {r \in shorter : Len(r) = n - 1}, x \in S}

RowLists == SeqsUpTo(RowSet, MaxRows) \ {<<>>}

\* the calendar romcal generated (a year of Sunday cycle C)
BatchCalendar ==
    <<Day(<<2025, 1130>>, <<"advent", "1", "sunday">>, "ADVENT", 1, 0, "C", NoValue, "temporale"),
      Day(<<2025, 1203>>, <<"advent", "1", "wednesday">>, "ADVENT", 1, 3, "C", "II", "temporale"),
      Day(<<2025, 1207>>, <<"advent", "2", "sunday">>, "ADVENT", 2, 0, "C", NoValue, "temporale"),
      Day(<<2025, 1228>>, <<"holy", "family">>, "CHRISTMAS_TIME", 1, 0, "C", NoValue, "temporale"),
      Day(<<2025, 704>>, <<"independence", "day">>, NoValue, NoWeek, 5, "C", NoValue, "properOfSaints")>>

BatchIdle ==
    /\ rows = <<>> /\ ri = 0 /\ bpc = "idle" /\ readings = <<>> /\ allReadings = <<>>
    /\ output = <<>> /\ written = FALSE /\ runError = FALSE

\* main has generated the calendar and read the input file (lines 543-609)
BatchInit ==
    /\ rows \in RowLists
    /\ ri = 1 /\ bpc = "extract" /\ readings = <<>>
    /\ allReadings = EmptyReadings
    /\ output = EmptyOutput
    /\ written = FALSE /\ runError = FALSE

\* lines 177-223: extractReadingsFromHTML handles one row
ExtractRow ==
    /\ bpc = "extract" /\ ri <= Len(rows)
    /\ readings' = ExtractedRow(readings, rows[ri])
    /\ ri' = ri + 1
    /\ UNCHANGED <<rows, bpc, allReadings, output, written, runError>>
    /\ UNCHANGED <<walkVars, matchVars, normVars, csvVars, feastVars>>

\* lines 612-616: the readings are merged by cycle.  A throw is caught at line
\* 833: main logs the error and ends without writing.
MergeReadings ==
    /\ bpc = "extract" /\ ri > Len(rows)
    /\ LET m == MergeFrom(readings, 1, allReadings)
       IN  IF m.threw
           THEN /\ runError' = TRUE /\ bpc' = "done"
                /\ UNCHANGED allReadings
           ELSE /\ allReadings' = m.all /\ bpc' = "match"
                /\ UNCHANGED runError
    /\ UNCHANGED <<rows, ri, readings, output, written>>
    /\ UNCHANGED <<walkVars, matchVars, normVars, csvVars, feastVars>>

\* lines 626-669: each reading is matched and, when a day is found, pushed
MatchReadings ==
    /\ bpc = "match"
    /\ output' = [output EXCEPT
                    !.sundays = [c \in SundayCycles |-> MatchedDays(calendar, allReadings[c], 1, c)]]
    /\ bpc' = "write"
    /\ UNCHANGED <<rows, ri, readings, allReadings, written, runError>>
    /\ UNCHANGED <<walkVars, matchVars, normVars, csvVars, feastVars>>

\* lines 671-831: the calendar's other days are added, every group is sorted and
\* the file is written
WriteOutput ==
    /\ bpc = "write"
    /\ output' = Sorted(WithCalendarDays(output, calendar))
    /\ written' = TRUE
    /\ bpc' = "done"
    /\ UNCHANGED <<rows, ri, readings, allReadings, runError>>
    /\ UNCHANGED <<walkVars, matchVars, normVars, csvVars, feastVars>>

\* ------------------------------------------------------------------------
\* Citation normalizer: processReference of the CSV build
\* (src/unnamed/part_001 lines 358-508)
\* ------------------------------------------------------------------------
\* A string is the sequence of its characters, each a one-character string; the
\* characters outside ASCII that the code names are these four dashes.
FigureDash == "U+2012"

EnDash == "U+2013"

EmDash == "U+2014"

HorizontalBar == "U+2015"

Newline == "\n"

\* [‒–—―]
DashChars == {FigureDash, EnDash, EmDash, HorizontalBar}

\* [^\x00-\x7F] among the characters of the model
NonAscii == DashChars

\* \d
Digits == {"0", "1", "2", "3", "4", "5", "6", "7", "8", "9"}

UpperChars == <<"A", "B", "C", "D", "E", "F", "G", "H", "I", "J", "K", "L", "M",
                "N", "O", "P", "Q", "R", "S", "T", "U", "V", "W", "X", "Y", "Z">>

LowerChars == <<"a", "b", "c", "d", "e", "f", "g", "h", "i", "j", "k", "l", "m",
                "n", "o", "p", "q", "r", "s", "t", "u", "v", "w", "x", "y", "z">>

\* [A-Za-z]
Alpha == Range(UpperChars) \cup Range(LowerChars)

\* \s
Whitespace == {" ", Newline}

\* String.prototype.toLowerCase
LowerChar(c) ==
    IF c \in Range(UpperChars) THEN LowerChars[IndexOf(UpperChars, c) + 1] ELSE c

toLowerCase(s) == [i \in 1..Len(s) |-> LowerChar(s[i])]

\* the first index from i on whose character is not in class C (Len(s) + 1 when
\* the run reaches the end): what a greedy C* consumes
RECURSIVE Span(_, _, _)
Span(s, i, C) ==
    IF i <= Len(s) /\ s[i] \in C THEN Span(s, i + 1, C) ELSE i

\* the literal lit stands at index i of s
MatchAt(s, i, lit) ==
    /\ i >= 1 /\ i + Len(lit) - 1 <= Len(s)
    /\ \A k \in 1..Len(lit) : s[i + k - 1] = lit[k]

\* the same, ignoring case (lit is in lower case): the /i flag
MatchAtCI(s, i, lit) ==
    /\ i >= 1 /\ i + Len(lit) - 1 <= Len(s)
    /\ \A k \in 1..Len(lit) : LowerChar(s[i + k - 1]) = lit[k]

From(s, i) == SubSeq(s, i, Len(s))

\* String.prototype.trim
RECURSIVE TrimEnd(_)
TrimEnd(s) ==
    IF s # <<>> /\ s[Len(s)] \in Whitespace THEN TrimEnd(SubSeq(s, 1, Len(s) - 1)) ELSE s

trim(s) == TrimEnd(From(s, Span(s, 1, Whitespace)))

\* String.prototype.includes / startsWith on characters
IncludesCI(s, lit) == \E i \in 1..Len(s) : MatchAtCI(s, i, lit)

\* the smallest member of a non-empty set of numbers
Least(S) == CHOOSE i \in S : \A j \in S : i <= j

\* Array.prototype.join
RECURSIVE Join(_, _)
Join(parts, sep) ==
    IF parts = <<>> THEN <<>>
    ELSE IF Len(parts) = 1 THEN parts[1]
    ELSE parts[1] \o sep \o Join(Tail(parts), sep)

\* the index of the first character c from i on, Len(s) + 1 when there is none
Until(s, i, c) ==
    IF \E k \in i..Len(s) : s[k] = c THEN Least({k \in i..Len(s) : s[k] = c})
    ELSE IF i > Len(s) THEN i ELSE Len(s) + 1

\* the index of the first "\n" from i on, Len(s) + 1 when there is none
LineEnd(s, i) == Until(s, i, Newline)

\* ---- the replacements of the code.  Each one copies the text from index i up
\* to the leftmost match at or after i, writes the replacement, and goes on
\* after the match, as String.prototype.replace does with a /g pattern.

\* line 393: reference.replace(/\s*\(diff\)|\s*\(new\)/g, '')
DiffNewAt(s, i) ==
    LET j == Span(s, i, Whitespace)
    IN  MatchAt(s, j, <<"(", "d", "i", "f", "f", ")">>) \/ MatchAt(s, j, <<"(", "n", "e", "w", ")">>)

RECURSIVE StripDiffNew(_, _)
StripDiffNew(s, i) ==
    IF \E m \in i..Len(s) : DiffNewAt(s, m)
    THEN LET m == Least({n \in i..Len(s) : DiffNewAt(s, n)})
             j == Span(s, m, Whitespace)
         IN  SubSeq(s, i, m - 1) \o
             (IF MatchAt(s, j, <<"(", "d", "i", "f", "f", ")">>) THEN StripDiffNew(s, j + 6)
              ELSE StripDiffNew(s, j + 5))
    ELSE From(s, i)

\* line 396: reference.split(/\s+or\s+/i)
OrAt(s, i) ==
    /\ i <= Len(s) /\ s[i] \in Whitespace
    /\ LET j == Span(s, i, Whitespace)
       IN  MatchAtCI(s, j, <<"o", "r">>) /\ j + 2 <= Len(s) /\ s[j + 2] \in Whitespace

RECURSIVE SplitOr(_)
SplitOr(s) ==
    IF \E i \in 1..Len(s) : OrAt(s, i)
    THEN LET i == Least({k \in 1..Len(s) : OrAt(s, k)})
             j == Span(s, i, Whitespace)
             k == Span(s, j + 2, Whitespace)
         IN  <<SubSeq(s, 1, i - 1)>> \o SplitOr(From(s, k))
    ELSE <<s>>

\* line 400: options[0].match(/^(\d*\s*[A-Za-z]+)/), '' when there is no match
BookNameOf(s) ==
    LET j == Span(s, Span(s, 1, Digits), Whitespace)
        k == Span(s, j, Alpha)
    IN  IF k > j THEN SubSeq(s, 1, k - 1) ELSE <<>>

\* lines 434, 453: .replace(/^opt:\s*/i, '')
StripOpt(s) ==
    IF MatchAtCI(s, 1, <<"o", "p", "t", ":">>) THEN From(s, Span(s, 5, Whitespace)) ELSE s

\* line 429: option.replace(/^cf\.\s*/i, '')
StripCf(s) ==
    IF MatchAtCI(s, 1, <<"c", "f", ".">>) THEN From(s, Span(s, 4, Whitespace)) ELSE s

\* lines 435, 454: .replace(/(\d+)\+(\d+)/g, '$1,$2').  A match consumes both
\* numbers, and the scan goes on after the second one.
PlusAt(s, i) ==
    /\ s[i] \in Digits
    /\ LET j == Span(s, i, Digits)
       IN  j + 1 <= Len(s) /\ s[j] = "+" /\ s[j + 1] \in Digits

RECURSIVE PlusToComma(_, _)
PlusToComma(s, i) ==
    IF \E m \in i..Len(s) : PlusAt(s, m)
    THEN LET m == Least({n \in i..Len(s) : PlusAt(s, n)})
             j == Span(s, m, Digits)
             k == Span(s, j + 1, Digits)
         IN  SubSeq(s, i, j - 1) \o <<",">> \o SubSeq(s, j + 1, k - 1) \o PlusToComma(s, k)
    ELSE From(s, i)

\* lines 436, 455: .replace(/[‒–—―]/g, '-')
PlainDashes(s) == [i \in 1..Len(s) |-> IF s[i] \in DashChars THEN "-" ELSE s[i]]

\* lines 437, 456: .replace(/\s*-\s*Vg.*|\(new\)|\(diff\)/g, '')
VgAt(s, i) ==
    LET j == Span(s, i, Whitespace)
        k == Span(s, j + 1, Whitespace)
    IN  j <= Len(s) /\ s[j] = "-" /\ MatchAt(s, k, <<"V", "g">>)

AnnotationAt(s, i) ==
    VgAt(s, i) \/ MatchAt(s, i, <<"(", "n", "e", "w", ")">>) \/ MatchAt(s, i, <<"(", "d", "i", "f", "f", ")">>)

RECURSIVE StripVg(_, _)
StripVg(s, i) ==
    IF \E m \in i..Len(s) : AnnotationAt(s, m)
    THEN LET m == Least({n \in i..Len(s) : AnnotationAt(s, n)})
             k == Span(s, Span(s, m, Whitespace) + 1, Whitespace)
         IN  SubSeq(s, i, m - 1) \o
             (IF VgAt(s, m) THEN StripVg(s, LineEnd(s, k + 2))
              ELSE IF MatchAt(s, m, <<"(", "n", "e", "w", ")">>) THEN StripVg(s, m + 5)
              ELSE StripVg(s, m + 6))
    ELSE From(s, i)

\* lines 438, 457: .replace(/\s*,\s*/g, ', ')
CommaAt(s, i) ==
    LET j == Span(s, i, Whitespace)
    IN  j <= Len(s) /\ s[j] = ","

RECURSIVE SpaceCommas(_, _)
SpaceCommas(s, i) ==
    IF \E m \in i..Len(s) : CommaAt(s, m)
    THEN LET m == Least({n \in i..Len(s) : CommaAt(s, n)})
             j == Span(s, m, Whitespace)
         IN  SubSeq(s, i, m - 1) \o <<",", " ">> \o SpaceCommas(s, Span(s, j + 1, Whitespace))
    ELSE From(s, i)

\* lines 439, 458: .replace(/(\d+)\s*:\s*(\d+)/g, '$1:$2')
ColonAt(s, i) ==
    /\ s[i] \in Digits
    /\ LET j == Span(s, i, Digits)
           k == Span(s, j, Whitespace)
           l == Span(s, k + 1, Whitespace)
       IN  k <= Len(s) /\ s[k] = ":" /\ l <= Len(s) /\ s[l] \in Digits

RECURSIVE TightColons(_, _)
TightColons(s, i) ==
    IF \E n \in i..Len(s) : ColonAt(s, n)
    THEN LET n == Least({o \in i..Len(s) : ColonAt(s, o)})
             j == Span(s, n, Digits)
             l == Span(s, Span(s, j, Whitespace) + 1, Whitespace)
             m == Span(s, l, Digits)
         IN  SubSeq(s, i, j - 1) \o <<":">> \o SubSeq(s, l, m - 1) \o TightColons(s, m)
    ELSE From(s, i)

\* lines 440, 459: .replace(/\s+/g, ' ')
RECURSIVE OneSpace(_, _)
OneSpace(s, i) ==
    IF \E m \in i..Len(s) : s[m] \in Whitespace
    THEN LET m == Least({n \in i..Len(s) : s[n] \in Whitespace})
         IN  SubSeq(s, i, m - 1) \o <<" ">> \o OneSpace(s, Span(s, m, Whitespace))
    ELSE From(s, i)

\* lines 441, 460: .replace(/[^\x00-\x7F]/g, '-')
AsciiOnly(s) == [i \in 1..Len(s) |-> IF s[i] \in NonAscii THEN "-" ELSE s[i]]

\* lines 433-442 (cleanReference) and 452-461 (standardReference): the same chain
CleanChain(cleanOption) ==
    trim(AsciiOnly(OneSpace(TightColons(SpaceCommas(StripVg(PlainDashes(
        PlusToComma(StripOpt(cleanOption), 1)), 1), 1), 1), 1)))

\* line 419: option.match(/\(cited in ([^)]+)\)/i): the cited text, '' for no match
CitedAt(s, i) ==
    /\ MatchAtCI(s, i, <<"(", "c", "i", "t", "e", "d", " ", "i", "n", " ">>)
    /\ LET j == Until(s, i + 10, ")")
       IN  j > i + 10 /\ j <= Len(s)

CitationOf(s) ==
    IF \E i \in 1..Len(s) : CitedAt(s, i)
    THEN LET i == Least({k \in 1..Len(s) : CitedAt(s, k)})
         IN  SubSeq(s, i + 10, Until(s, i + 10, ")") - 1)
    ELSE <<>>

\* lines 386-390: reference.split('–').map(p => p.trim())
RECURSIVE SplitOn(_, _)
SplitOn(s, c) ==
    IF c \in Range(s)
    THEN LET i == Until(s, 1, c)
         IN  <<SubSeq(s, 1, i - 1)>> \o SplitOn(From(s, i + 1), c)
    ELSE <<s>>

\* line 373: reference.match(new RegExp(`${cycle}:\\s*([^\\n]+)(?:\\n|$)`)): the
\* text of group 1, '' for no match.  \s* also runs over line ends; it gives
\* back what [^\n]+ needs.
CycleBlockAt(s, i, lab) ==
    /\ MatchAt(s, i, lab \o <<":">>)
    /\ \E t \in (i + Len(lab) + 1)..Len(s) :
          t <= Span(s, i + Len(lab) + 1, Whitespace) /\ s[t] # Newline

CycleBlock(s, lab) ==
    IF \E i \in 1..Len(s) : CycleBlockAt(s, i, lab)
    THEN LET i == Least({k \in 1..Len(s) : CycleBlockAt(s, k, lab)})
             a == i + Len(lab) + 1
             t == CHOOSE u \in a..Len(s) :
                     /\ u <= Span(s, a, Whitespace) /\ s[u] # Newline
                     /\ \A w \in a..Len(s) :
                            (w <= Span(s, a, Whitespace) /\ s[w] # Newline) => w <= u
         IN  SubSeq(s, t, LineEnd(s, t) - 1)
    ELSE <<>>

\* ---- processReference
\* null for a text, a code or a note is the empty sequence: none of the three is
\* ever the empty string in an option (line 444 skips an empty cleaned text, the
\* parser's code is truthy on line 450, and a note joins at least one qualifier)
NullText == <<>>

\* `${null}` in the template of line 373
NullCycle == <<"n", "u", "l", "l">>

\* what bcv.parse(cleanReference).osis() can do with one candidate: yield a
\* code, yield the empty string, or throw (lines 446-504)
ParserOutcomes == {"osis", "empty", "throws"}

\* the code the parser yields for a text: an opaque function of the text
Osis(cleanReference) == <<"osis">> \o cleanReference

\* lines 362-368
Sentinel == <<"(", "n", "o", " ", "b", "i", "b", "l", ".", " ", "r", "e", "f", ".", ")">>

MarkerOption ==
    [referenceOsis |-> NullText, referenceStandard |-> NullText,
     note |-> <<"n", "o", " ", "b", "i", "b", "l", "i", "c", "a", "l", " ", "r", "e", "f", "e", "r", "e", "n", "c", "e">>, index |-> 0]

\* lines 408-412: the candidate with the book name put before it
CompleteBook(option, i, bookName) ==
    IF i > 1 /\ trim(option) # <<>> /\ trim(option)[1] \in Digits /\ bookName # <<>>
    THEN bookName \o <<" ">> \o option
    ELSE option

\* line 415
IsOptional(option) == MatchAt(toLowerCase(trim(option)), 1, <<"o", "p", "t", ":">>)

\* line 425
IsCf(option) == MatchAt(toLowerCase(trim(option)), 1, <<"c", "f", ".">>)

\* lines 426-430
CleanOption(option) == IF IsCf(option) THEN StripCf(option) ELSE option

\* Notes with 'alternative/option' pushed for a short form as well
Notes_AlternativeAlways(option, nOptions, gospelTitle) ==
    (IF MatchAt(toLowerCase(trim(option)), 1, <<"o", "p", "t", ":">>) THEN <<<<"o", "p", "t", "i", "o", "n", "a", "l">>>> ELSE <<>>) \o
    (IF MatchAt(toLowerCase(trim(option)), 1, <<"c", "f", ".">>) THEN <<<<"c", "f", ".">>>> ELSE <<>>) \o
    (IF IncludesCI(option, <<"(", "s", "h", "o", "r", "t", " ", "f", "o", "r", "m", ")">>) THEN <<<<"s", "h", "o", "r", "t", " ", "f", "o", "r", "m">>>> ELSE <<>>) \o
    (IF nOptions > 1 THEN <<<<"a", "l", "t", "e", "r", "n", "a", "t", "i", "v", "e", "/", "o", "p", "t", "i", "o", "n">>>> ELSE <<>>) \o
    (IF CitationOf(option) # <<>> THEN <<<<"c", "i", "t", "e", "d", " ", "i", "n", " ">> \o CitationOf(option)>> ELSE <<>>) \o
    (IF gospelTitle # <<>> THEN <<gospelTitle>> ELSE <<>>)

\* Notes with the gospel title pushed first
Notes_TitleFirst(option, nOptions, gospelTitle) ==
    (IF gospelTitle # <<>> THEN <<gospelTitle>> ELSE <<>>) \o
    (IF MatchAt(toLowerCase(trim(option)), 1, <<"o", "p", "t", ":">>) THEN <<<<"o", "p", "t", "i", "o", "n", "a", "l">>>> ELSE <<>>) \o
    (IF MatchAt(toLowerCase(trim(option)), 1, <<"c", "f", ".">>) THEN <<<<"c", "f", ".">>>> ELSE <<>>) \o
    (IF IncludesCI(option, <<"(", "s", "h", "o", "r", "t", " ", "f", "o", "r", "m", ")">>) THEN <<<<"s", "h", "o", "r", "t", " ", "f", "o", "r", "m">>>>
     ELSE IF nOptions > 1 THEN <<<<"a", "l", "t", "e", "r", "n", "a", "t", "i", "v", "e", "/", "o", "p", "t", "i", "o", "n">>>>
     ELSE <<>>) \o
    (IF CitationOf(option) # <<>> THEN <<<<"c", "i", "t", "e", "d", " ", "i", "n", " ">> \o CitationOf(option)>> ELSE <<>>)

\* lines 463-492: the qualifiers in the order they are pushed, and the note
Notes(option, nOptions, gospelTitle) ==
    (IF IsOptional(option) THEN <<<<"o", "p", "t", "i", "o", "n", "a", "l">>>> ELSE <<>>) \o
    (IF IsCf(option) THEN <<<<"c", "f", ".">>>> ELSE <<>>) \o
    (IF IncludesCI(option, <<"(", "s", "h", "o", "r", "t", " ", "f", "o", "r", "m", ")">>) THEN <<<<"s", "h", "o", "r", "t", " ", "f", "o", "r", "m">>>>
     ELSE IF nOptions > 1 THEN <<<<"a", "l", "t", "e", "r", "n", "a", "t", "i", "v", "e", "/", "o", "p", "t", "i", "o", "n">>>>
     ELSE <<>>) \o
    (IF CitationOf(option) # <<>> THEN <<<<"c", "i", "t", "e", "d", " ", "i", "n", " ">> \o CitationOf(option)>> ELSE <<>>) \o
    (IF gospelTitle # <<>> THEN <<gospelTitle>> ELSE <<>>)

NoteOf(option, nOptions, gospelTitle) ==
    LET notes == Notes(option, nOptions, gospelTitle)
    IN  IF notes = <<>> THEN NullText ELSE Join(notes, <<";", " ">>)

\* lines 494-498; index is the position of the candidate the option came from
\* (history, not a field of the program's object)
ReadingOption(option, i, nOptions, gospelTitle) ==
    LET standardReference == CleanChain(CleanOption(option))
    IN  [referenceOsis     |-> Osis(standardReference),
         referenceStandard |-> standardReference,
         note              |-> NoteOf(option, nOptions, gospelTitle),
         index             |-> i]

\* ProcessOptions with the loop left at the first candidate that yields no code
RECURSIVE ProcessOptions_StopsOnFailure(_, _, _, _, _)
ProcessOptions_StopsOnFailure(opts, i, bookName, gospelTitle, prs) ==
    IF i > Len(opts) THEN <<>>
    ELSE LET option == CompleteBook(opts[i], i, bookName)
             rest   == ProcessOptions_StopsOnFailure(opts, i + 1, bookName, gospelTitle, prs)
         IN  IF CleanChain(CleanOption(option)) = <<>> THEN rest
             ELSE IF i \in DOMAIN prs /\ prs[i] = "osis"
             THEN <<ReadingOption(option, i, Len(opts), gospelTitle)>> \o rest
             ELSE <<>>

\* lines 405-505: the loop over the candidates from position i on; prs[i] is
\* what the parser does with candidate i
RECURSIVE ProcessOptions(_, _, _, _, _)
ProcessOptions(opts, i, bookName, gospelTitle, prs) ==
    IF i > Len(opts) THEN <<>>
    ELSE LET option == CompleteBook(opts[i], i, bookName)
             rest   == ProcessOptions(opts, i + 1, bookName, gospelTitle, prs)
         IN  IF CleanChain(CleanOption(option)) = <<>> THEN rest
             ELSE IF i \in DOMAIN prs /\ prs[i] = "osis"
             THEN <<ReadingOption(option, i, Len(opts), gospelTitle)>> \o rest
             ELSE rest

\* lines 384-390
HasTitle(reference, gospel) == gospel /\ EnDash \in Range(reference)

TitleSplit(reference) == [k \in 1..Len(SplitOn(reference, EnDash)) |-> trim(SplitOn(reference, EnDash)[k])]

\* lines 382-507: the body for a cell that is neither the sentinel nor a block
\* of cycles
ProcessPlain(reference, gospel, prs) ==
    LET ref0        == IF HasTitle(reference, gospel) THEN TitleSplit(reference)[1] ELSE reference
        gospelTitle == IF HasTitle(reference, gospel) THEN TitleSplit(reference)[2] ELSE NullText
        opts        == SplitOr(StripDiffNew(ref0, 1))
    IN  ProcessOptions(opts, 1, BookNameOf(opts[1]), gospelTitle, prs)

\* line 371
HasCycleBlocks(reference) ==
    /\ \E i \in 1..Len(reference) : MatchAt(reference, i, <<"A", ":">>)
    /\ \E i \in 1..Len(reference) : MatchAt(reference, i, <<"B", ":">>)
    /\ \E i \in 1..Len(reference) : MatchAt(reference, i, <<"C", ":">>)

\* lines 358-508; cyc is the text the template of line 373 makes of the cycle
RECURSIVE processReference(_, _, _, _)
processReference(reference, gospel, cyc, prs) ==
    IF reference = <<>> THEN <<>>
    ELSE IF toLowerCase(trim(reference)) = Sentinel THEN <<MarkerOption>>
    ELSE IF HasCycleBlocks(reference)
    THEN IF CycleBlock(reference, cyc) # <<>>
         THEN processReference(CycleBlock(reference, cyc), gospel, NullCycle, prs)
         ELSE <<>>
    ELSE ProcessPlain(reference, gospel, prs)

\* ---- the cells the normalizer is run on
\* a candidate is written prefix, book, numbers, suffix; a cell is its
\* candidates joined by " or ", with a gospel title after an en dash at the end
Candidate(pre, book, nums, suf) == [pre |-> pre, book |-> book, nums |-> nums, suf |-> suf]

CandidateText(c) ==
    c.pre \o (IF c.book = <<>> THEN <<>> ELSE c.book \o <<" ">>) \o c.nums \o c.suf

\* the prefix and the suffix a first candidate is written with
Decorations ==
    {<<<<>>, <<>>>>,
     <<<<"o", "p", "t", ":", " ">>, <<>>>>,
     <<<<"c", "f", ".", " ">>, <<>>>>,
     <<<<"o", "p", "t", ":", " ", "c", "f", ".", " ">>, <<>>>>,
     <<<<>>, <<" ", "(", "s", "h", "o", "r", "t", " ", "f", "o", "r", "m", ")">>>>,
     <<<<>>, <<" ", "(", "c", "i", "t", "e", "d", " ", "i", "n", " ", "I", "s", "a", " ", "1", ":", "2", ")">>>>,
     <<<<>>, <<" ", "(", "d", "i", "f", "f", ")">>>>,
     <<<<"o", "p", "t", ":", " ">>, <<" ", "(", "c", "i", "t", "e", "d", " ", "i", "n", " ", "I", "s", "a", " ", "1", ":", "2", ")">>>>,
     <<<<"c", "f", ".", " ">>, <<" ", "(", "s", "h", "o", "r", "t", " ", "f", "o", "r", "m", ")">>>>}

FirstRefs ==
    {<<<<"M", "a", "t", "t">>, <<"1", ":", "1", "-", "2", "5">>>>, <<<<"R", "o", "m">>, <<"5", ":", "1", "2", "-", "1", "9">>>>, <<<<"J", "o", "h", "n">>, <<"1", "1", ":", "2", "5", "a", "+", "2", "6">>>>, <<<<"P", "s">>, <<"5", "1", ":", "1", "4", "+", "1", "7", "+", "1", "9">>>>, <<<<"2", " ", "C", "o", "r">>, <<"1", ":", "1", "-", "3">>>>}

SecondRefs ==
    {<<<<>>, <<"1", ":", "1", "8", "-", "2", "5">>>>, <<<<>>, <<"5", ":", "1", "2", ",", " ", "1", "7", "-", "1", "9">>>>, <<<<"2", " ", "C", "o", "r">>, <<"1", ":", "1", "-", "3">>>>, <<<<"L", "u", "k", "e">>, <<"2", ":", "1">>>>}

FirstCandidates ==
    {Candidate(d[1], r[1], r[2], d[2]) : d \in Decorations, r \in FirstRefs}

SecondCandidates ==
    {Candidate(<<>>, r[1], r[2], x) :
        r \in {q \in SecondRefs : q[1] = <<>>},
        x \in {<<>>, <<" ", "(", "s", "h", "o", "r", "t", " ", "f", "o", "r", "m", ")">>}} \cup
    {Candidate(p, r[1], r[2], <<>>) :
        p \in {<<>>, <<"o", "p", "t", ":", " ">>}, r \in {q \in SecondRefs : q[1] # <<>>}}

Titles == {<<>>, <<" ", EnDash, " ", "B", "i", "r", "t", "h">>}

Cell(cands, title) ==
    [text  |-> Join([k \in 1..Len(cands) |-> CandidateText(cands[k])], <<" ", "o", "r", " ">>) \o title,
     cands |-> cands, title |-> title, blocks |-> <<>>]

PlainCells ==
    {Cell(<<a>>, t) : a \in FirstCandidates, t \in Titles} \cup
    {Cell(<<a, b>>, t) : a \in FirstCandidates, b \in SecondCandidates, t \in Titles}

\* a citation with a subtitle after an em dash or an en dash (README.md line 64),
\* the range of the citation written with a hyphen or with an en dash
DashCells ==
    {Cell(<<Candidate(<<>>, <<"M", "a", "t", "t">>, n, <<>>)>>, t) :
        n \in {<<"4", ":", "1", "-", "1", "1">>, <<"4", ":", "1", EnDash, "1", "1">>}, t \in {<<" ", EnDash, " ", "T", "e", "m", "p", "t", "a", "t", "i", "o", "n">>, <<" ", EmDash, " ", "T", "e", "m", "p", "t", "a", "t", "i", "o", "n">>}}

\* a cell with a block for each Sunday cycle (README.md lines 68-73), written
\* "A: a", "B: b", "C: c" with sep between the blocks
BlockCell(a, b, c, sep) ==
    [text   |-> <<"A", ":">> \o (IF a = <<>> THEN <<>> ELSE <<" ">> \o a) \o sep \o
                <<"B", ":", " ">> \o b \o sep \o <<"C", ":", " ">> \o c,
     cands  |-> <<>>, title |-> <<>>, blocks |-> <<a, b, c>>]

BlockCells ==
    {BlockCell(a, <<"M", "a", "r", "k", " ", "1", "1", ":", "1", "-", "1", "0", " ", "o", "r", " ", "J", "o", "h", "n", " ", "1", "2", ":", "1", "2", "-", "1", "6">>, <<"L", "u", "k", "e", " ", "1", "9", ":", "2", "8", "-", "4", "0">>, sep) :
        a \in {<<"M", "a", "t", "t", " ", "2", "1", ":", "1", "-", "1", "1">>, <<>>}, sep \in {<<Newline>>, <<" ">>}}

\* the cells of another shape: the empty cell, the sentinel, a Vulgate annotation
OtherCells ==
    {[text |-> x, cands |-> <<>>, title |-> <<>>, blocks |-> <<>>] :
        x \in {<<>>, <<"(", "n", "o", " ", "b", "i", "b", "l", ".", " ", "r", "e", "f", ".", ")">>, <<"(", "N", "o", " ", "b", "i", "b", "l", ".", " ", "r", "e", "f", ".", ")">>, <<"P", "s", " ", "1", ":", "1", "-", "2", " ", "-", " ", "V", "g", " ", "3">>}}

SpecialCells == BlockCells \cup OtherCells

\* the cycle the caller passes, as line 373 writes it into the template
Cycles == {NullCycle, <<"A">>, <<"B">>, <<"C">>}

\* lines 600-606, 655-661, 716-722: the reading slots of a row
ReadingSlots ==
    {"first_reading", "responsorial_psalm", "second_reading", "gospel_acclamation", "gospel"}

\* the callers pass isGospel = true for the gospel slot only, and a cycle with
\* it only (lines 605, 660, 721)
NormInit ==
    /\ cell \in PlainCells \cup DashCells \cup SpecialCells
    /\ slot \in (IF cell \in SpecialCells THEN ReadingSlots ELSE {"first_reading", "gospel"})
    /\ isGospel = (slot = "gospel")
    /\ cycle \in (IF cell \in SpecialCells /\ slot = "gospel" THEN Cycles ELSE {NullCycle})
    /\ parser \in [1..(IF Len(cell.cands) = 1 THEN 1 ELSE 2) -> ParserOutcomes]
    /\ npc = "idle"
    /\ options = <<>>

\* one call of processReference on the cell
Normalize ==
    /\ npc = "idle"
    /\ options' = processReference(cell.text, isGospel, cycle, parser)
    /\ npc' = "done"
    /\ UNCHANGED <<cell, slot, isGospel, cycle, parser>>
    /\ UNCHANGED <<walkVars, batchVars, matchVars, csvVars, feastVars>>

\* ------------------------------------------------------------------------
\* The CSV build (src/unnamed/part_001): extractReadingsFromCSV, the catalogue
\* look-ups and main.  A day description is the sequence of its words, a
\* catalogue id the sequence of its tokens between underscores; a test
\* String.includes of the source is a test for a run of whole words or tokens.
\* The rank and the mass type of an output record are left out: no step of
\* the build reads them back.
\* ------------------------------------------------------------------------
WordAt(d, i) == IF i \in 1..Len(d) THEN d[i] ELSE ""

\* String.prototype.toLowerCase on the words the rows and the catalogue use
toLowerWord(w) ==
    CASE w = "A" -> "a" [] w = "B" -> "b" [] w = "C" -> "c"
      [] w = "I" -> "i" [] w = "II" -> "ii"
      [] w = "Holy" -> "holy" [] w = "Family" -> "family"
      [] w = "Epiphany" -> "epiphany" [] w = "Pentecost" -> "pentecost"
      [] w = "Mary," -> "mary," [] w = "Mother" -> "mother" [] w = "God" -> "god"
      [] w = "The" -> "the" [] w = "Lord" -> "lord" [] w = "Passion" -> "passion"
      [] w = "Palm" -> "palm" [] w = "Sunday" -> "sunday"
      [] w = "Monday" -> "monday" [] w = "Tuesday" -> "tuesday"
      [] w = "Mon" -> "mon" [] w = "Tues" -> "tues"
      [] w = "Octave" -> "octave" [] w = "Week" -> "week" [] w = "First" -> "first"
      [] w \in {"Advent", "ADVENT"} -> "advent" [] w \in {"Lent", "LENT"} -> "lent"
      [] w \in {"Easter", "EASTER"} -> "easter"
      [] w \in {"Christmas", "CHRISTMAS"} -> "christmas"
      [] OTHER -> w

\* String.prototype.toUpperCase on the season words
toUpperWord(w) ==
    CASE w = "Advent" -> "ADVENT" [] w = "Lent" -> "LENT" [] w = "Easter" -> "EASTER"
      [] w = "Christmas" -> "CHRISTMAS" [] OTHER -> w

toLowerWords(ws) == [i \in 1..Len(ws) |-> toLowerWord(ws[i])]

\* .replace(/[:,']/g, '') on a lower-case word
StripPunctuation(w) == IF w = "mary," THEN "mary" ELSE w

\* line 545: /\b(Mon|Tues|Wed|Thurs|Fri|Sat)\b/i
WeekdayWords == {"Mon", "Tues", "Wed", "Thurs", "Fri", "Sat"}

isWeekday(d) == \E i \in 1..Len(d) : d[i] \in WeekdayWords

\* line 548: /palm\s+sunday/i
isPalmSunday(d) == Includes(toLowerWords(d), <<"palm", "sunday">>)

\* [–-] in lines 551 and 614
DashWords == {"-", EnDash}

\* \w+
IsWord(w) == w # "" /\ w \notin DashWords

\* the letters [ABC]+ a cycle tag begins with
TagLetters(w) ==
    CASE w = "A" -> <<"A">> [] w = "B" -> <<"B">> [] w = "C" -> <<"C">>
      [] w = "AB" -> <<"A", "B">> [] w = "ABC" -> <<"A", "B", "C">>
      [] OTHER -> <<>>

\* "<n>th Sunday in|of <season> - <letter>" from word i on
RegularAt(d, i) ==
    /\ Ordinal(WordAt(d, i)) > 0
    /\ WordAt(d, i + 1) = "Sunday"
    /\ WordAt(d, i + 2) \in {"in", "of"}
    /\ IsWord(WordAt(d, i + 3))
    /\ WordAt(d, i + 4) \in DashWords
    /\ TagLetters(WordAt(d, i + 5)) # <<>>

\* line 551
isRegularSunday(d) == \E i \in 1..Len(d) : RegularAt(d, i)

\* line 734: getOrdinalSuffix
getOrdinalSuffix(n) ==
    CASE n = 1 -> "1st" [] n = 2 -> "2nd" [] n = 3 -> "3rd" [] OTHER -> "4th"

\* "Week|Octave of <season> - <day>" from word i on (line 556); the first
\* alternative wants white space before its word, the second is "Octave" alone
WeekdayAt(d, i) ==
    /\ WordAt(d, i) \in {"Week", "Octave"}
    /\ i > 1 \/ WordAt(d, i) = "Octave"
    /\ WordAt(d, i + 1) = "of"
    /\ IsWord(WordAt(d, i + 2))
    /\ WordAt(d, i + 3) = "-"
    /\ IsWord(WordAt(d, i + 4))

\* line 556: <<>> for no match, else the week (0 when group 1 is absent), the
\* season word and the day word
weekdayMatch(d) ==
    LET at == {i \in 1..Len(d) : WeekdayAt(d, i)}
    IN  IF at = {} THEN <<>>
        ELSE LET i == Least(at)
             IN  <<[week   |-> IF i > 1 THEN Ordinal(d[i - 1]) ELSE 0,
                    season |-> d[i + 2],
                    day    |-> d[i + 4]]>>

\* lines 577-582
fullDayNames(day) ==
    CASE day = "Mon" -> "Monday" [] day = "Tues" -> "Tuesday" [] day = "Wed" -> "Wednesday"
      [] day = "Thurs" -> "Thursday" [] day = "Fri" -> "Friday" [] day = "Sat" -> "Saturday"
      [] day = "Sun" -> "Sunday" [] OTHER -> day

\* the parser of the build accepts every citation of the rows below
AllOsis == [i \in 1..2 |-> "osis"]

\* a null feastIdentifier, a null romcalKey
NoTokens == <<>>

\* the cell of Palm Sunday that holds no reading (lines 656-659)
NoReadingCell == <<"x">>

\* the cell a row holds for the reading slot key
CellOf(row, key) ==
    CASE key = "first_reading" -> row.first
      [] key = "responsorial_psalm" -> row.psalm
      [] key = "second_reading" -> row.second
      [] key = "gospel_acclamation" -> row.alleluia
      [] key = "gospel" -> row.gospel

\* lines 600-606, 655-661, 716-722: the readings of a record, one call of
\* processReference for each slot; only the gospel is passed isGospel = true
\* and the cycle, and a cell of Palm Sunday that holds no reading (656-659) is
\* not passed at all
SlotReadings(row, slots, cyc, palm) ==
    [key \in slots |->
        IF palm /\ key # "gospel" /\ CellOf(row, key) = NoReadingCell THEN <<>>
        ELSE processReference(CellOf(row, key), key = "gospel",
                              IF key = "gospel" THEN cyc ELSE NullCycle, AllOsis)]

\* lines 553-611: the two records of a weekday row, for cycle I and cycle II
WeekdayReadings(row) ==
    LET m == weekdayMatch(row.day)
    IN  IF m = <<>> THEN <<>>
        ELSE LET isOctave    == m[1].week = 0
                 weekNumber  == IF isOctave THEN 1 ELSE m[1].week
                 fullDayName == fullDayNames(m[1].day)
                 feastName   == IF isOctave
                                THEN <<fullDayName, "within", "the", "Octave", "of", "Easter">>
                                ELSE <<fullDayName, "of", "the", getOrdinalSuffix(weekNumber), "Week", "of", "Easter">>
                 options4    == SlotReadings(row, ReadingSlots \ {"second_reading"}, NullCycle, FALSE)
                 info(c) ==
                     [sourceName      |-> row.day,
                      feastName       |-> feastName,
                      cycle           |-> c,
                      weekNumber      |-> weekNumber,
                      season          |-> toUpperWord(m[1].season),
                      dayOfWeek       |-> fullDayName,
                      isFeast         |-> isOctave,
                      feastIdentifier |-> IF isOctave
                                          THEN <<"easter", "octave", toLowerWord(m[1].day)>>
                                          ELSE NoTokens,
                      readings        |-> options4]
             IN  <<info("I"), info("II")>>

\* line 614: <<>> for no match, else the week (0 when group 1 is absent), the
\* season word ("" when absent) and the letter of group 4; the first
\* alternative matches a description that begins with the ordinal, the second
\* runs from the start of any other description to its first dash
descMatch(d) ==
    LET dashes == {j \in 2..Len(d) : d[j] \in DashWords /\ TagLetters(WordAt(d, j + 1)) # <<>>}
    IN  IF RegularAt(d, 1)
        THEN <<[week |-> Ordinal(d[1]), season |-> d[4], cycle |-> Head(TagLetters(d[6]))]>>
        ELSE IF dashes = {} THEN <<>>
        ELSE <<[week |-> 0, season |-> "", cycle |-> Head(TagLetters(d[Least(dashes) + 1]))]>>

\* lines 612-665: the record of a regular Sunday or of Palm Sunday
SundayReadings(row) ==
    LET m == descMatch(row.day)
        palm == isPalmSunday(row.day)
    IN  IF m = <<>> THEN <<>>
        ELSE LET c          == m[1].cycle
                 weekNumber == IF palm THEN 6 ELSE m[1].week
                 seasonName == IF palm THEN "LENT" ELSE toUpperWord(m[1].season)
             IN  <<[sourceName      |-> row.day,
                    feastName       |-> IF palm
                                        THEN <<"Palm", "Sunday", "of", "the", "Passion", "of", "the", "Lord">>
                                        ELSE <<getOrdinalSuffix(weekNumber), "Sunday", "of", seasonName>>,
                    cycle           |-> c,
                    weekNumber      |-> weekNumber,
                    season          |-> seasonName,
                    dayOfWeek       |-> "Sunday",
                    isFeast         |-> palm,
                    feastIdentifier |-> IF palm THEN <<"palm", "sunday">> ELSE NoTokens,
                    readings        |-> SlotReadings(row, ReadingSlots, <<c>>, palm)]>>

\* line 668: /([^-]+)\s*-\s*([ABC]+)/i: <<>> for no match, else the words of
\* the name and the letters of the tag
feastMatch(d) ==
    LET hyphens == {j \in 2..Len(d) : d[j] = "-" /\ d[j - 1] # "-" /\ TagLetters(WordAt(d, j + 1)) # <<>>}
    IN  IF hyphens = {} THEN <<>>
        ELSE LET j     == Least(hyphens)
                 before == {k \in 1..(j - 1) : d[k] = "-"}
                 from   == IF before = {} THEN 1 ELSE (CHOOSE k \in before : \A l \in before : l <= k) + 1
             IN  <<[feastName |-> SubSeq(d, from, j - 1), cycles |-> TagLetters(d[j + 1])]>>

\* lines 683-685, 700-702: the identifier made of the name
NameIdentifier(feastName) == [i \in 1..Len(feastName) |-> StripPunctuation(toLowerWord(feastName[i]))]

\* lines 677-703: the season and the identifier of a feast, by its name
FeastSeason(feastName) ==
    LET lower == toLowerWords(feastName)
    IN  CASE Includes(lower, <<"christmas">>) -> "CHRISTMAS"
          [] Includes(lower, <<"holy", "family">>) -> "CHRISTMAS"
          [] Includes(lower, <<"mary,", "the", "mother", "of", "god">>) -> "CHRISTMAS"
          [] Includes(lower, <<"epiphany">>) -> "CHRISTMAS"
          [] Includes(lower, <<"baptism">>) -> "ORDINARY"
          [] OTHER -> "SPECIAL"

FeastIdentifier(feastName) ==
    LET lower == toLowerWords(feastName)
    IN  CASE Includes(lower, <<"christmas">>) -> NameIdentifier(feastName)
          [] Includes(lower, <<"holy", "family">>) -> <<"holy", "family">>
          [] Includes(lower, <<"mary,", "the", "mother", "of", "god">>) -> <<"mary", "mother", "of", "god">>
          [] Includes(lower, <<"epiphany">>) -> <<"epiphany">>
          [] Includes(lower, <<"baptism">>) -> <<"baptism", "of", "the", "lord">>
          [] OTHER -> NameIdentifier(feastName)

\* lines 666-727: one record for each letter of the tag of a feast row
FeastReadings(row) ==
    LET m == feastMatch(row.day)
    IN  IF m = <<>> THEN <<>>
        ELSE LET feastName == m[1].feastName
             IN  [k \in 1..Len(m[1].cycles) |->
                    [sourceName      |-> row.day,
                     feastName       |-> feastName,
                     cycle           |-> m[1].cycles[k],
                     weekNumber      |-> NoWeek,
                     season          |-> FeastSeason(feastName),
                     dayOfWeek       |-> "Sunday",
                     isFeast         |-> TRUE,
                     feastIdentifier |-> FeastIdentifier(feastName),
                     readings        |-> SlotReadings(row, ReadingSlots, <<m[1].cycles[k]>>, FALSE)]]

\* lines 520-728: the records one row adds, in the order it pushes them
RowReadings(row) ==
    IF row.day = <<>> THEN <<>>
    ELSE IF isWeekday(row.day) THEN WeekdayReadings(row)
    ELSE IF isRegularSunday(row.day) \/ isPalmSunday(row.day) THEN SundayReadings(row)
    ELSE FeastReadings(row)

CsvGroups == {"A", "B", "C", "I", "II"}

OfCycle(infos, g) == SelectSeq(infos, LAMBDA r : r.cycle = g)

\* lines 511-731: extractReadingsFromCSV on the rows of one file
RECURSIVE extractReadingsFromCSV(_)
extractReadingsFromCSV(records) ==
    IF records = <<>> THEN [g \in CsvGroups |-> <<>>]
    ELSE LET before == extractReadingsFromCSV(SubSeq(records, 1, Len(records) - 1))
             added  == RowReadings(records[Len(records)])
         IN  [g \in CsvGroups |-> before[g] \o OfCycle(added, g)]

\* ------------------------------------------------------------------------
\* The catalogue: romcal.getAllDefinitions() and the computed properties of
\* the generated calendar (lines 1009-1044)
\* ------------------------------------------------------------------------
Definition(id, name) == [id |-> id, name |-> name]

Advent1Sunday == Definition(<<"advent", "1", "sunday">>, <<"First", "Sunday", "of", "Advent">>)

Lent1Sunday == Definition(<<"lent", "1", "sunday">>, <<"First", "Sunday", "of", "Lent">>)

HolyFamily ==
    Definition(<<"holy", "family", "of", "jesus", "mary", "and", "joseph">>, <<"The", "Holy", "Family">>)

EpiphanyOfTheLord == Definition(<<"epiphany", "of", "the", "lord">>, <<"The", "Epiphany", "of", "the", "Lord">>)

EpiphanyVigil == Definition(<<"epiphany", "vigil">>, <<"Vigil", "of", "the", "Epiphany">>)

PalmSunday ==
    Definition(<<"palm", "sunday", "of", "the", "passion", "of", "the", "lord">>,
               <<"Palm", "Sunday", "of", "the", "Passion", "of", "the", "Lord">>)

EasterTuesday == Definition(<<"easter", "tuesday">>, <<"Tuesday", "within", "the", "Octave", "of", "Easter">>)

EasterTime2Monday ==
    Definition(<<"easter", "time", "2", "monday">>, <<"Monday", "of", "the", "2nd", "week", "of", "Easter">>)

AllDefinitions ==
    <<Advent1Sunday, Lent1Sunday, HolyFamily, EpiphanyOfTheLord, EpiphanyVigil, PalmSunday,
      EasterTuesday, EasterTime2Monday>>

\* the season name romcal computes for a day of the calendar
SeasonNameOf(def) ==
    CASE def.id[1] = "advent" -> "Advent"
      [] def.id[1] \in {"lent", "palm"} -> "Lent"
      [] def.id[1] = "easter" -> "Easter Time"
      [] OTHER -> "Christmas Time"

\* lines 1018-1044: computedPropertiesMap for the days the calendar of the
\* year holds
ComputedFor(defs) ==
    [id \in {defs[i].id : i \in 1..Len(defs)} |->
        LET def == CHOOSE d \in Range(defs) : d.id = id
        IN  [name |-> def.name, seasonNames |-> <<SeasonNameOf(def)>>]]

Reverse(s) == [i \in 1..Len(s) |-> s[Len(s) + 1 - i]]

NoComputed == [id \in {} |-> <<>>]

\* the catalogues of the runs: every day with its computed properties, the
\* same in another order of the keys, the days without computed properties,
\* and an empty catalogue
Catalogues ==
    {[definitions |-> AllDefinitions, computed |-> ComputedFor(AllDefinitions)],
     [definitions |-> Reverse(AllDefinitions), computed |-> ComputedFor(AllDefinitions)],
     [definitions |-> AllDefinitions, computed |-> NoComputed],
     [definitions |-> <<>>, computed |-> NoComputed]}

\* an absent name, an absent list of season names
NoWords == <<>>

\* computedPropsMap?.get(match.id) || {}
ComputedProps(computedPropsMap, id) ==
    IF id \in DOMAIN computedPropsMap THEN computedPropsMap[id]
    ELSE [name |-> NoWords, seasonNames |-> <<>>]

\* lines 769-775, 861-867, 1220-1226: the definition with its computed properties
Enhanced(match, computedPropsMap) ==
    LET computedProps == ComputedProps(computedPropsMap, match.id)
    IN  [id          |-> match.id,
         name        |-> IF computedProps.name # NoWords THEN computedProps.name ELSE match.name,
         seasonNames |-> computedProps.seasonNames]

\* WeekToken(n): `${weekNumber}` in an id
WeekToken(n) == <<"0", "1", "2", "3", "4", "5", "6">>[n + 1]

\* def.id.includes('ord_'): a token ending in "ord" with a token after it
HasOrdUnderscore(id) == \E i \in 1..(Len(id) - 1) : id[i] \in {"ord", "lord"}

\* lines 748-754: the filter of findMatchingDefinition
IsSundayOf(def, season, weekNumber) ==
    /\ def.id # NoTokens
    /\ \E i \in 2..Len(def.id) : def.id[i] = "sunday"
    /\ \E i \in 1..(Len(def.id) - 2) :
            def.id[i] = toLowerWord(season) /\ def.id[i + 1] = WeekToken(weekNumber)
    /\ ~HasOrdUnderscore(def.id)

\* the same look-up, taking a later definition with every call already made
FirstDefinition_ByCallCount(definitions, hits, computedPropsMap) ==
    IF hits = {} THEN <<>>
    ELSE LET later == {i \in hits : i > Least(hits)}
         IN  IF Len(lookupLog) > 0 /\ later # {}
             THEN <<Enhanced(definitions[Least(later)], computedPropsMap)>>
             ELSE <<Enhanced(definitions[Least(hits)], computedPropsMap)>>

\* the first definition of Object.values(definitions) among those at hits:
\* <<>> for null
FirstDefinition(definitions, hits, computedPropsMap) ==
    IF hits = {} THEN <<>> ELSE <<Enhanced(definitions[Least(hits)], computedPropsMap)>>

\* lines 744-780
findMatchingDefinition(definitions, season, weekNumber, computedPropsMap) ==
    FirstDefinition(definitions,
                    {i \in 1..Len(definitions) : IsSundayOf(definitions[i], season, weekNumber)},
                    computedPropsMap)

\* lines 821-837
feastMappings(feastIdentifier) ==
    CASE feastIdentifier \in {<<"christmas", "at", "the", "vigil", "mass">>,
                              <<"christmas", "mass", "during", "the", "night">>,
                              <<"christmas", "mass", "at", "dawn">>,
                              <<"christmas", "mass", "during", "the", "day">>} -> <<"nativity">>
      [] feastIdentifier = <<"holy", "family">> -> <<"holy", "family", "of", "jesus", "mary", "and", "joseph">>
      [] feastIdentifier = <<"mary", "mother", "of", "god">> -> <<"mary", "mother", "of", "god">>
      [] feastIdentifier = <<"epiphany">> -> <<"epiphany">>
      [] feastIdentifier = <<"baptism", "of", "the", "lord">> -> <<"baptism", "of", "the", "lord">>
      [] feastIdentifier = <<"palm", "sunday">> -> <<"palm", "sunday", "of", "the", "passion", "of", "the", "lord">>
      [] feastIdentifier = <<"easter", "octave", "mon">> -> <<"easter", "monday">>
      [] feastIdentifier = <<"easter", "octave", "tues">> -> <<"easter", "tuesday">>
      [] feastIdentifier = <<"easter", "octave", "wed">> -> <<"easter", "wednesday">>
      [] feastIdentifier = <<"easter", "octave", "thurs">> -> <<"easter", "thursday">>
      [] feastIdentifier = <<"easter", "octave", "fri">> -> <<"easter", "friday">>
      [] feastIdentifier = <<"easter", "octave", "sat">> -> <<"easter", "saturday">>
      [] OTHER -> NoTokens

\* lines 817-872
findFeastDefinition(definitions, feastIdentifier, computedPropertiesMap) ==
    LET romcalKey == feastMappings(feastIdentifier)
    IN  IF romcalKey = NoTokens THEN <<>>
        ELSE FirstDefinition(definitions,
                             {i \in 1..Len(definitions) :
                                 definitions[i].id # NoTokens /\ Includes(definitions[i].id, romcalKey)},
                             computedPropertiesMap)

\* a null season
NoSeason == ""

\* lines 880-942: determineSeason(id, name); an absent id is NoTokens, an
\* absent name NoWords
determineSeason(id, name) ==
    LET idLower   == toLowerWords(id)
        nameLower == toLowerWords(name)
        inId(t)   == Includes(idLower, t)
        inName(t) == Includes(nameLower, t)
    IN  IF id = NoTokens /\ name = NoWords THEN NoSeason
        ELSE IF inId(<<"advent">>) \/ inName(<<"advent">>) THEN "ADVENT"
        ELSE IF \/ inId(<<"christmas">>) \/ inId(<<"nativity">>) \/ inId(<<"holy", "family">>)
                \/ inId(<<"mary", "mother", "of", "god">>) \/ inId(<<"epiphany">>)
                \/ inId(<<"baptism", "of", "the", "lord">>)
                \/ inName(<<"christmas">>) \/ inName(<<"nativity">>) \/ inName(<<"holy", "family">>)
                \/ inName(<<"mary,", "mother", "of", "god">>) \/ inName(<<"epiphany">>)
                \/ inName(<<"baptism", "of", "the", "lord">>)
             THEN "CHRISTMAS"
        ELSE IF \/ inId(<<"lent">>) \/ inId(<<"palm", "sunday">>)
                \/ inName(<<"lent">>) \/ inName(<<"palm", "sunday">>)
             THEN "LENT"
        ELSE IF \/ inId(<<"easter">>) \/ inId(<<"pentecost">>)
                \/ inName(<<"easter">>) \/ inName(<<"pentecost">>) \/ inName(<<"octave">>)
             THEN "EASTER"
        ELSE IF inId(<<"ordinary">>) \/ inName(<<"ordinary", "time">>) THEN "ORDINARY"
        ELSE NoSeason

\* a || b on season strings
OrElse(a, b) == IF a # NoSeason THEN a ELSE b

\* seasonNames?.[0]
FirstSeasonName(found) ==
    IF found # <<>> /\ found[1].seasonNames # <<>> THEN found[1].seasonNames[1] ELSE NoSeason

\* a null date
NullDate == ""

\* lines 1092-1131: the output record of a feast of a Sunday group
SundayFeastDay(reading, definitions, computedPropertiesMap) ==
    LET feastDefinition == findFeastDefinition(definitions, reading.feastIdentifier, computedPropertiesMap)
    IN  [identifier |-> reading.feastIdentifier \o <<toLowerWord(reading.cycle)>>,
         name       |-> IF feastDefinition # <<>> THEN feastDefinition[1].name ELSE reading.feastName,
         romcalKey  |-> IF feastDefinition # <<>> THEN feastDefinition[1].id ELSE NoTokens,
         season     |-> OrElse(FirstSeasonName(feastDefinition),
                               OrElse(determineSeason(IF feastDefinition # <<>> THEN feastDefinition[1].id ELSE NoTokens,
                                                      reading.feastName),
                                      reading.season)),
         week       |-> NoWeek,
         dayOfWeek  |-> "Sunday",
         date       |-> IF reading.feastIdentifier = <<"mary", "mother", "of", "god">> THEN "01-01" ELSE NullDate,
         readings   |-> reading.readings]

\* lines 1132-1168: the output record of a regular Sunday, <<>> when the
\* catalogue has no definition for it
RegularSundayDay(reading, definitions, computedPropertiesMap) ==
    LET definition == findMatchingDefinition(definitions, reading.season, reading.weekNumber, computedPropertiesMap)
    IN  IF definition = <<>> THEN <<>>
        ELSE LET computedProps == ComputedProps(computedPropertiesMap, definition[1].id)
             IN  <<[identifier |-> <<toLowerWord(reading.season), WeekToken(reading.weekNumber), "sunday",
                                     toLowerWord(reading.cycle)>>,
                    name       |-> IF computedProps.name # NoWords THEN computedProps.name ELSE definition[1].name,
                    romcalKey  |-> definition[1].id,
                    season     |-> OrElse(IF computedProps.seasonNames # <<>> THEN computedProps.seasonNames[1] ELSE NoSeason,
                                          reading.season),
                    week       |-> reading.weekNumber,
                    dayOfWeek  |-> "Sunday",
                    date       |-> NullDate,
                    readings   |-> reading.readings]>>

\* lines 1089-1170: the records of one Sunday group, in the order of its readings
RECURSIVE SundayDays(_, _, _)
SundayDays(infos, definitions, computedPropertiesMap) ==
    IF infos = <<>> THEN <<>>
    ELSE (IF Head(infos).isFeast
          THEN <<SundayFeastDay(Head(infos), definitions, computedPropertiesMap)>>
          ELSE RegularSundayDay(Head(infos), definitions, computedPropertiesMap))
         \o SundayDays(Tail(infos), definitions, computedPropertiesMap)

\* lines 1177-1196: the output record of a day of the octave
WeekdayFeastDay(reading, definitions, computedPropertiesMap) ==
    LET feastDefinition == findFeastDefinition(definitions, reading.feastIdentifier, computedPropertiesMap)
    IN  [identifier |-> reading.feastIdentifier \o <<toLowerWord(reading.cycle)>>,
         name       |-> IF feastDefinition # <<>> THEN feastDefinition[1].name ELSE reading.feastName,
         romcalKey  |-> IF feastDefinition # <<>> THEN feastDefinition[1].id ELSE NoTokens,
         season     |-> OrElse(FirstSeasonName(feastDefinition),
                               OrElse(determineSeason(IF feastDefinition # <<>> THEN feastDefinition[1].id ELSE NoTokens,
                                                      reading.feastName),
                                      reading.season)),
         week       |-> reading.weekNumber,
         dayOfWeek  |-> reading.dayOfWeek,
         date       |-> NullDate,
         readings   |-> reading.readings]

\* lines 1197-1246: the output record of a regular weekday
RegularWeekdayDay(reading, definitions, computedPropertiesMap) ==
    LET romcalPattern == <<"easter", "time", WeekToken(reading.weekNumber), toLowerWord(reading.dayOfWeek)>>
        romcalDef == FirstDefinition(definitions,
                                     {i \in 1..Len(definitions) :
                                         definitions[i].id # NoTokens /\ Includes(definitions[i].id, romcalPattern)},
                                     computedPropertiesMap)
    IN  [identifier |-> <<toLowerWord(reading.season), WeekToken(reading.weekNumber),
                          toLowerWord(reading.dayOfWeek), toLowerWord(reading.cycle)>>,
         name       |-> IF romcalDef # <<>> THEN romcalDef[1].name ELSE reading.feastName,
         romcalKey  |-> IF romcalDef # <<>> THEN romcalDef[1].id ELSE NoTokens,
         season     |-> OrElse(FirstSeasonName(romcalDef),
                               OrElse(IF romcalDef # <<>> THEN determineSeason(romcalDef[1].id, romcalDef[1].name)
                                      ELSE NoSeason,
                                      reading.season)),
         week       |-> reading.weekNumber,
         dayOfWeek  |-> reading.dayOfWeek,
         date       |-> NullDate,
         readings   |-> reading.readings]

\* lines 1173-1248: the records of one weekday group
RECURSIVE WeekdayDays(_, _, _)
WeekdayDays(infos, definitions, computedPropertiesMap) ==
    IF infos = <<>> THEN <<>>
    ELSE <<IF Head(infos).isFeast
           THEN WeekdayFeastDay(Head(infos), definitions, computedPropertiesMap)
           ELSE RegularWeekdayDay(Head(infos), definitions, computedPropertiesMap)>>
         \o WeekdayDays(Tail(infos), definitions, computedPropertiesMap)

\* line 1262: seasonOrder[season] || 99
seasonOrder(season) ==
    CASE season = "CHRISTMAS" -> 1 [] season = "ORDINARY" -> 2 [] season = "LENT" -> 3
      [] season = "EASTER" -> 4 [] season = "ADVENT" -> 5 [] OTHER -> 99

\* lines 1273-1284: dayOrder[dayOfWeek], 99 when undefined
dayOrder(day) ==
    CASE day = "Sunday" -> 0 [] day = "Monday" -> 1 [] day = "Tuesday" -> 2
      [] day = "Wednesday" -> 3 [] day = "Thursday" -> 4 [] day = "Friday" -> 5
      [] day = "Saturday" -> 6 [] OTHER -> 99

\* lines 1251-1287; the one date of the build is '01-01', so two dates are equal
sortLiturgicalDays(a, b) ==
    IF a.date # NullDate /\ b.date = NullDate THEN -1
    ELSE IF a.date = NullDate /\ b.date # NullDate THEN 1
    ELSE IF a.date # NullDate /\ b.date # NullDate THEN 0
    ELSE IF a.season # b.season THEN seasonOrder(a.season) - seasonOrder(b.season)
    ELSE IF a.week # b.week THEN a.week - b.week
    ELSE dayOrder(a.dayOfWeek) - dayOrder(b.dayOfWeek)

\* lines 1296-1303: octave days first, then by week
octaveFirst(a, b) ==
    LET aOctave == Includes(a.identifier, <<"octave">>)
        bOctave == Includes(b.identifier, <<"octave">>)
    IN  IF aOctave /\ ~bOctave THEN -1
        ELSE IF ~aOctave /\ bOctave THEN 1
        ELSE a.week - b.week

\* lines 1315-1327: (dayOrder[day] || 99), so that Sunday counts 99
byDayOfWeek(a, b) ==
    LET order(day) == IF dayOrder(day) = 0 THEN 99 ELSE dayOrder(day)
    IN  order(a.dayOfWeek) - order(b.dayOfWeek)

\* the comparator of a pass of the sort
Comparator(pass, a, b) ==
    CASE pass = "liturgical" -> sortLiturgicalDays(a, b)
      [] pass = "octave" -> octaveFirst(a, b)
      [] OTHER -> byDayOfWeek(a, b)

\* Array.prototype.sort is stable: x goes behind the last record that is not
\* after it
InsertDay(pass, x, s) ==
    LET notAfter == {i \in 1..Len(s) : Comparator(pass, s[i], x) <= 0}
        at == IF notAfter = {} THEN 0 ELSE CHOOSE i \in notAfter : \A j \in notAfter : j <= i
    IN  SubSeq(s, 1, at) \o <<x>> \o SubSeq(s, at + 1, Len(s))

RECURSIVE SortDays(_, _)
SortDays(pass, s) ==
    IF s = <<>> THEN <<>>
    ELSE InsertDay(pass, s[Len(s)], SortDays(pass, SubSeq(s, 1, Len(s) - 1)))

\* lines 1306-1334: the days grouped by week, each week sorted by day, the
\* weeks put back in ascending order
RECURSIVE ByWeek(_, _)
ByWeek(days, weeks) ==
    IF weeks = {} THEN <<>>
    ELSE LET w == Least(weeks)
         IN  SortDays("day", SelectSeq(days, LAMBDA d : d.week = w)) \o ByWeek(days, weeks \ {w})

\* lines 1290-1335: the sort of a weekday group
SortWeekdayGroup(days) ==
    LET sorted == SortDays("octave", SortDays("liturgical", days))
    IN  ByWeek(sorted, {sorted[i].week : i \in 1..Len(sorted)})

SundayGroups == {"A", "B", "C"}

WeekdayGroups == {"I", "II"}

\* lines 985-997: output.cycles
EmptyCycles == [g \in CsvGroups |-> <<>>]

\* ------------------------------------------------------------------------
\* The rows of the input files
\* ------------------------------------------------------------------------
\* a row of a file: its day description and its five cells; a file of weekday
\* readings has no Second Reading column (line 530)
CsvRow(day, second) ==
    [day      |-> day,
     first    |-> <<"G", "e", "n", " ", "1", ":", "1">>,
     psalm    |-> <<"P", "s", " ", "1", ":", "1">>,
     second   |-> second,
     alleluia |-> <<"J", "o", "h", "n", " ", "1", ":", "1">>,
     gospel   |-> <<"M", "a", "t", "t", " ", "1", ":", "1">>]

Romans == <<"R", "o", "m", " ", "1", ":", "1">>

CsvRowSet ==
    {CsvRow(<<"1st", "Sunday", "of", "Advent", "-", "A">>, Romans),
     CsvRow(<<"1st", "Sunday", "of", "Easter", EnDash, "C">>, Romans),
     CsvRow(<<"Palm", "Sunday", "-", "B">>, NoReadingCell),
     CsvRow(<<"Holy", "Family", "-", "ABC">>, Romans),
     CsvRow(<<"Epiphany", "-", "ABC">>, Romans),
     CsvRow(<<"Mary,", "the", "Mother", "of", "God", "-", "ABC">>, Romans),
     CsvRow(<<"Pentecost", "-", "AB">>, Romans),
     CsvRow(<<"2nd", "Week", "of", "Easter", "-", "Mon">>, NullText),
     CsvRow(<<"2nd", "Week", "of", "Lent", "-", "Mon">>, NullText),
     CsvRow(<<"Octave", "of", "Easter", "-", "Tues">>, NullText),
     CsvRow(<<>>, NullText)}

\* fs.readdirSync(inputDir) (line 1055): one file of one or two rows, or two
\* files of one row each
CsvFileLists ==
    {<<<<r>>>> : r \in CsvRowSet} \cup
    {<<<<r, s>>>> : r \in CsvRowSet, s \in CsvRowSet} \cup
    {<<<<r>>, <<s>>>> : r \in CsvRowSet, s \in CsvRowSet}

CsvIdle ==
    /\ csvFiles = <<>> /\ cfi = 0 /\ cpc = "idle"
    /\ csvAllReadings = <<>> /\ csvOutput = <<>>
    /\ romcalDefinitions = <<>> /\ computedProperties = <<>> /\ givenCatalogue = <<>>
    /\ lookupLog = <<>>

\* main has built the catalogue and listed the input files (lines 980-1065)
CsvInit ==
    /\ csvFiles \in CsvFileLists
    /\ cfi = 1 /\ cpc = "extract"
    /\ csvAllReadings = [g \in CsvGroups |-> <<>>]
    /\ csvOutput = EmptyCycles
    /\ givenCatalogue \in Catalogues
    /\ romcalDefinitions = givenCatalogue.definitions
    /\ computedProperties = givenCatalogue.computed
    /\ lookupLog = <<>>

\* lines 1067-1078: one file is read, its rows extracted and merged by cycle
ExtractFile ==
    /\ cpc = "extract" /\ cfi <= Len(csvFiles)
    /\ LET extracted == extractReadingsFromCSV(csvFiles[cfi])
       IN  csvAllReadings' = [g \in CsvGroups |-> csvAllReadings[g] \o extracted[g]]
    /\ cfi' = cfi + 1
    /\ UNCHANGED <<csvFiles, cpc, csvOutput, romcalDefinitions, computedProperties, givenCatalogue, lookupLog>>
    /\ UNCHANGED <<walkVars, batchVars, matchVars, normVars, feastVars>>

\* lines 1088-1170: the Sunday groups are built
BuildSundays ==
    /\ cpc = "extract" /\ cfi > Len(csvFiles)
    /\ csvOutput' = [g \in CsvGroups |->
                        IF g \in SundayGroups
                        THEN SundayDays(csvAllReadings[g], romcalDefinitions, computedProperties)
                        ELSE csvOutput[g]]
    /\ cpc' = "weekdays"
    /\ UNCHANGED <<csvFiles, cfi, csvAllReadings, romcalDefinitions, computedProperties, givenCatalogue, lookupLog>>
    /\ UNCHANGED <<walkVars, batchVars, matchVars, normVars, feastVars>>

\* lines 1172-1248: the weekday groups are built
BuildWeekdays ==
    /\ cpc = "weekdays"
    /\ csvOutput' = [g \in CsvGroups |->
                        IF g \in WeekdayGroups
                        THEN WeekdayDays(csvAllReadings[g], romcalDefinitions, computedProperties)
                        ELSE csvOutput[g]]
    /\ cpc' = "sort"
    /\ UNCHANGED <<csvFiles, cfi, csvAllReadings, romcalDefinitions, computedProperties, givenCatalogue, lookupLog>>
    /\ UNCHANGED <<walkVars, batchVars, matchVars, normVars, feastVars>>

\* lines 1289-1338: every group is sorted and the output written
SortAndWrite ==
    /\ cpc = "sort"
    /\ csvOutput' = [g \in CsvGroups |->
                        IF g \in SundayGroups THEN SortDays("liturgical", csvOutput[g])
                        ELSE SortWeekdayGroup(csvOutput[g])]
    /\ cpc' = "done"
    /\ UNCHANGED <<csvFiles, cfi, csvAllReadings, romcalDefinitions, computedProperties, givenCatalogue, lookupLog>>
    /\ UNCHANGED <<walkVars, batchVars, matchVars, normVars, feastVars>>

\* ------------------------------------------------------------------------
\* The look-ups on their own: calls of findMatchingDefinition and of
\* findFeastDefinition on one catalogue, in any order
\* ------------------------------------------------------------------------
MaxLookups == 3

SeasonQueries == {"ADVENT", "LENT", "EASTER"}

WeekQueries == {1, 2}

FeastQueries ==
    {<<"holy", "family">>, <<"epiphany">>, <<"palm", "sunday">>, <<"pentecost">>,
     <<"easter", "octave", "tues">>, NoTokens}

LookupInit ==
    /\ givenCatalogue \in Catalogues
    /\ romcalDefinitions = givenCatalogue.definitions
    /\ computedProperties = givenCatalogue.computed
    /\ lookupLog = <<>>
    /\ cpc = "lookup"
    /\ csvFiles = <<>> /\ cfi = 0 /\ csvAllReadings = <<>> /\ csvOutput = <<>>

\* one call of findMatchingDefinition (line 1134)
CallFindMatchingDefinition ==
    /\ cpc = "lookup" /\ Len(lookupLog) < MaxLookups
    /\ \E season \in SeasonQueries, weekNumber \in WeekQueries :
          lookupLog' = Append(lookupLog,
                              [query |-> <<season, WeekToken(weekNumber)>>,
                               found |-> findMatchingDefinition(romcalDefinitions, season, weekNumber,
                                                                computedProperties)])
    /\ UNCHANGED <<csvFiles, cfi, cpc, csvAllReadings, csvOutput, romcalDefinitions, computedProperties, givenCatalogue>>
    /\ UNCHANGED <<walkVars, batchVars, matchVars, normVars, feastVars>>

\* one call of findFeastDefinition (lines 1094, 1178)
CallFindFeastDefinition ==
    /\ cpc = "lookup" /\ Len(lookupLog) < MaxLookups
    /\ \E feastIdentifier \in FeastQueries :
          lookupLog' = Append(lookupLog,
                              [query |-> <<"feast">> \o feastIdentifier,
                               found |-> findFeastDefinition(romcalDefinitions, feastIdentifier,
                                                             computedProperties)])
    /\ UNCHANGED <<csvFiles, cfi, cpc, csvAllReadings, csvOutput, romcalDefinitions, computedProperties, givenCatalogue>>
    /\ UNCHANGED <<walkVars, batchVars, matchVars, normVars, feastVars>>

\* ------------------------------------------------------------------------
\* The Sunday build (src/unnamed/part_002): findFeastByKeywords and the loop
\* of main that attaches a catalogue definition to each reading.  Its
\* extractReadingsFromCSV (lines 710-866) has the Sunday and the feast branch
\* of the one above, so its readings are those of SundayReadings and
\* FeastReadings.  A keyword is a word; k is found in an id or in a name when
\* it is one of its tokens or words in lower case.
\* ------------------------------------------------------------------------
\* def.id.toLowerCase().includes(k), def.name.toLowerCase().includes(k)
KeywordIn(k, words) == \E i \in 1..Len(words) : toLowerWord(words[i]) = k

\* lines 944-951: idMatches + (nameMatches * 2)
KeywordScore(def, lowerKeywords) ==
    LET idMatches   == Cardinality({j \in 1..Len(lowerKeywords) : KeywordIn(lowerKeywords[j], def.id)})
        nameMatches == Cardinality({j \in 1..Len(lowerKeywords) : KeywordIn(lowerKeywords[j], def.name)})
    IN  idMatches + (nameMatches * 2)

\* lines 940-955: .filter(def => def.id && def.name).map(...).filter(score > 0)
RECURSIVE ScoredMatches(_, _)
ScoredMatches(definitions, lowerKeywords) ==
    IF definitions = <<>> THEN <<>>
    ELSE LET def   == Head(definitions)
             rest  == ScoredMatches(Tail(definitions), lowerKeywords)
             score == KeywordScore(def, lowerKeywords)
         IN  IF def.id # NoTokens /\ def.name # NoWords /\ score > 0
             THEN <<[definition |-> def, score |-> score]>> \o rest
             ELSE rest

\* the insertion of the sort, an item going in front of those of its own score
InsertByScore_TiesFirst(x, s) ==
    LET ahead == {i \in 1..Len(s) : s[i].score > x.score}
        at == IF ahead = {} THEN 0 ELSE CHOOSE i \in ahead : \A j \in ahead : j <= i
    IN  SubSeq(s, 1, at) \o <<x>> \o SubSeq(s, at + 1, Len(s))

\* line 956: .sort((a, b) => b.score - a.score), a stable sort: x goes behind
\* the last item whose score is not smaller
InsertByScore(x, s) ==
    LET ahead == {i \in 1..Len(s) : s[i].score >= x.score}
        at == IF ahead = {} THEN 0 ELSE CHOOSE i \in ahead : \A j \in ahead : j <= i
    IN  SubSeq(s, 1, at) \o <<x>> \o SubSeq(s, at + 1, Len(s))

RECURSIVE SortByScore(_)
SortByScore(s) ==
    IF s = <<>> THEN <<>>
    ELSE InsertByScore(s[Len(s)], SortByScore(SubSeq(s, 1, Len(s) - 1)))

\* lines 933-972: <<>> for null, else the best match
findFeastByKeywords(definitions, keywords) ==
    LET lowerKeywords == toLowerWords(keywords)
        matches == SortByScore(ScoredMatches(definitions, lowerKeywords))
    IN  IF matches # <<>> THEN <<matches[1].definition>> ELSE <<>>

\* lines 1051-1061: feastMappings without the days of the octave
feastMappings_Sundays(feastIdentifier) ==
    IF Len(feastIdentifier) = 3 /\ SubSeq(feastIdentifier, 1, 2) = <<"easter", "octave">> THEN NoTokens
    ELSE feastMappings(feastIdentifier)

\* lines 1047-1083: <<>> for null
findFeastDefinition_Sundays(definitions, feastIdentifier) ==
    LET romcalKey == feastMappings_Sundays(feastIdentifier)
        hits == {i \in 1..Len(definitions) :
                    definitions[i].id # NoTokens /\ Includes(definitions[i].id, romcalKey)}
    IN  IF romcalKey = NoTokens \/ hits = {} THEN <<>> ELSE <<definitions[Least(hits)]>>

\* lines 877-900: <<>> for null
findMatchingDefinition_Sundays(definitions, season, weekNumber) ==
    LET hits == {i \in 1..Len(definitions) : IsSundayOf(definitions[i], season, weekNumber)}
    IN  IF hits = {} THEN <<>> ELSE <<definitions[Least(hits)]>>

\* lines 1088-1162: the output record of a reading, <<>> when a regular
\* Sunday has no definition
AttachedDay(reading, definitions) ==
    IF reading.isFeast
    THEN LET feastDefinition == findFeastDefinition_Sundays(definitions, reading.feastIdentifier)
         IN  <<[identifier |-> reading.feastIdentifier \o <<toLowerWord(reading.cycle)>>,
                name       |-> reading.feastName,
                romcalKey  |-> IF feastDefinition # <<>> THEN feastDefinition[1].id ELSE NoTokens,
                season     |-> reading.season,
                week       |-> NoWeek,
                dayOfWeek  |-> "Sunday",
                date       |-> IF reading.feastIdentifier = <<"mary", "mother", "of", "god">> THEN "01-01" ELSE NullDate,
                readings   |-> reading.readings]>>
    ELSE LET definition == findMatchingDefinition_Sundays(definitions, reading.season, reading.weekNumber)
         IN  IF definition = <<>> THEN <<>>
             ELSE <<[identifier |-> <<toLowerWord(reading.season), WeekToken(reading.weekNumber), "sunday",
                                      toLowerWord(reading.cycle)>>,
                     name       |-> definition[1].name,
                     romcalKey  |-> definition[1].id,
                     season     |-> reading.season,
                     week       |-> reading.weekNumber,
                     dayOfWeek  |-> "Sunday",
                     date       |-> NullDate,
                     readings   |-> reading.readings]>>

\* ---- the catalogue entries, the readings and the keywords of the runs
PentecostSunday == Definition(<<"pentecost", "sunday">>, <<"Pentecost", "Sunday">>)

PentecostVigil == Definition(<<"pentecost", "vigil">>, <<"Vigil", "of", "Pentecost">>)

TrinitySunday == Definition(<<"trinity", "sunday">>, <<"The", "Most", "Holy", "Trinity">>)

\* an entry without a name, an entry without an id
PentecostMonday == Definition(<<"pentecost", "monday">>, NoWords)

Unkeyed == Definition(NoTokens, <<"Pentecost">>)

SundayBuildDefinitions ==
    {PentecostSunday, PentecostVigil, TrinitySunday, PentecostMonday, Unkeyed, HolyFamily, Advent1Sunday}

\* the longest catalogue of the Sunday build
MaxDefinitions == 3

\* Object.values(definitions): the keys of an object are distinct
SundayBuildCatalogues ==
    {c \in DistinctSeqs(SundayBuildDefinitions, MaxDefinitions) :
        \A i, j \in 1..Len(c) : i # j => c[i] # c[j]}

RECURSIVE ReadingsOfRows(_)
ReadingsOfRows(rowSet) ==
    IF rowSet = {} THEN {}
    ELSE LET row == CHOOSE r \in rowSet : TRUE
         IN  Range(RowReadings(row)) \cup ReadingsOfRows(rowSet \ {row})

\* the readings of the Sunday and feast rows
SundayBuildReadings == ReadingsOfRows({r \in CsvRowSet : r.day # <<>> /\ ~isWeekday(r.day)})

KeywordLists ==
    SeqsUpTo({"pentecost", "Holy", "sunday", "ascension"}, 2)

FeastIdle ==
    /\ feastCatalogue = <<>> /\ feastReading = <<>> /\ feastKeywords = <<>>
    /\ fpc = "idle" /\ feastDay = <<>> /\ keywordMatch = <<>>

\* main is at a reading of allReadings (line 1088), or findFeastByKeywords is
\* about to be called with a list of keywords
FeastInit ==
    /\ feastCatalogue \in SundayBuildCatalogues
    /\ \/ fpc = "attach" /\ feastReading \in {<<r>> : r \in SundayBuildReadings} /\ feastKeywords = <<>>
       \/ fpc = "keywords" /\ feastReading = <<>> /\ feastKeywords \in KeywordLists
    /\ feastDay = <<>> /\ keywordMatch = <<>>

\* lines 1088-1163: one reading of the loop of main
AttachReading ==
    /\ fpc = "attach"
    /\ feastDay' = AttachedDay(feastReading[1], feastCatalogue)
    /\ fpc' = "attached"
    /\ UNCHANGED <<feastCatalogue, feastReading, feastKeywords, keywordMatch>>
    /\ UNCHANGED <<walkVars, batchVars, matchVars, normVars, csvVars>>

\* one call of findFeastByKeywords
CallFindFeastByKeywords ==
    /\ fpc = "keywords"
    /\ keywordMatch' = findFeastByKeywords(feastCatalogue, feastKeywords)
    /\ fpc' = "scored"
    /\ UNCHANGED <<feastCatalogue, feastReading, feastKeywords, feastDay>>
    /\ UNCHANGED <<walkVars, batchVars, matchVars, normVars, csvVars>>

\* ------------------------------------------------------------------------
\* Specifications
\* ------------------------------------------------------------------------
NormIdle ==
    /\ cell = [text |-> <<>>, cands |-> <<>>, title |-> <<>>, blocks |-> <<>>]
    /\ slot = "first_reading" /\ isGospel = FALSE /\ cycle = NullCycle /\ parser = <<>>
    /\ npc = "off" /\ options = <<>>

InitWalk == WalkInit /\ BatchIdle /\ MatchIdle /\ NormIdle /\ CsvIdle /\ FeastIdle

NextWalk == StartRange \/ WalkStep \/ EnumerateEntity \/ ReturnRange

SpecWalk == InitWalk /\ [][NextWalk]_vars

InitMatch == MatchInit /\ WalkIdle /\ BatchIdle /\ NormIdle /\ CsvIdle /\ FeastIdle

NextMatch == CallMatcher

SpecMatch == InitMatch /\ [][NextMatch]_vars

InitBatch ==
    /\ BatchInit
    /\ calendar = BatchCalendar /\ desc = <<>> /\ mpc = "idle" /\ matched = <<>>
    /\ WalkIdle /\ NormIdle /\ CsvIdle /\ FeastIdle

NextBatch == ExtractRow \/ MergeReadings \/ MatchReadings \/ WriteOutput

SpecBatch == InitBatch /\ [][NextBatch]_vars

InitNorm == NormInit /\ WalkIdle /\ BatchIdle /\ MatchIdle /\ CsvIdle /\ FeastIdle

NextNorm == Normalize

SpecNorm == InitNorm /\ [][NextNorm]_vars

InitCsv == CsvInit /\ WalkIdle /\ BatchIdle /\ MatchIdle /\ NormIdle /\ FeastIdle

NextCsv == ExtractFile \/ BuildSundays \/ BuildWeekdays \/ SortAndWrite

SpecCsv == InitCsv /\ [][NextCsv]_vars

InitLookup == LookupInit /\ WalkIdle /\ BatchIdle /\ MatchIdle /\ NormIdle /\ FeastIdle

NextLookup == CallFindMatchingDefinition \/ CallFindFeastDefinition

SpecLookup == InitLookup /\ [][NextLookup]_vars

InitFeast == FeastInit /\ WalkIdle /\ BatchIdle /\ MatchIdle /\ NormIdle /\ CsvIdle

NextFeast == AttachReading \/ CallFindFeastByKeywords

SpecFeast == InitFeast /\ [][NextFeast]_vars


\* ------------------------------------------------------------------------
\* Claims about the verse enumeration (SpecWalk)
\* ------------------------------------------------------------------------
\* the verses of the table, and their canonical order
TablePositions ==
    {<<b, c, v>> : b \in KnownBooks, c \in 1..MaxChapterNum, v \in 1..MaxVerseNum} \cap
    {q \in AnyBooks \X (1..MaxChapterNum) \X (1..MaxVerseNum) :
        q[1] \in KnownBooks /\ HasChapter(q[1], q[2]) /\ q[3] <= Chapters[q[1]][q[2]]}

Before(p, q) ==
    \/ IndexOf(Books, p[1]) < IndexOf(Books, q[1])
    \/ p[1] = q[1] /\ p[2] < q[2]
    \/ p[1] = q[1] /\ p[2] = q[2] /\ p[3] < q[3]

Between(s, e) == {q \in TablePositions : ~Before(q, s) /\ ~Before(e, q)}

StartPos(e) == <<e.start.b, e.start.c, e.start.v>>

EndPos(e) == <<e.end.b, e.end.c, e.end.v>>

\* the citation is one range entity
OneRange == Len(entities) = 1 /\ entities[1].type = "range"

\* ... whose start and end are verses of the table, start not after end
ValidRange ==
    /\ OneRange
    /\ StartPos(entities[1]) \in TablePositions
    /\ EndPos(entities[1]) \in TablePositions
    /\ ~Before(EndPos(entities[1]), StartPos(entities[1]))

Positions(s) == {<<k[1], k[2], k[3]>> : k \in Range(s)}

\* C1: a range walk whose start book is in the table terminates, whatever
\* numbers its start and end carry.  No walk that terminates takes more than
\* WalkBound iterations, so the claim is that no walk is ever found past them.
C1_WalkTerminates ==
    (wpc = "walk" /\ entities[ei].start.b \in KnownBooks) => walkIter <= WalkBound

\* C2: for a range from a table verse to a table verse not before it, the walk
\* adds exactly the verses from start to end inclusive, each once (one verse
\* when start = end).
C2_RangeExact ==
    (ValidRange /\ wpc = "done") =>
        /\ result.ret = "object"
        /\ Positions(verses) = Between(StartPos(entities[1]), EndPos(entities[1]))
        /\ Len(verses) = Cardinality(Between(StartPos(entities[1]), EndPos(entities[1])))
        /\ Len(result.range) = Len(verses)

\* a walk from Genesis into Revelation has been completed (it rolled over
\* chapters and books)
C2_Witness ==
    /\ ValidRange /\ wpc = "done"
    /\ entities[1].start.b = "Gen" /\ entities[1].end.b = "Rev"
    /\ Len(verses) >= 5

\* C3: a walk that reaches the end of the table without meeting its end
\* identifier makes processReference return a failure, not the verses walked.
C3_OverrunIsFailure ==
    (wpc = "done" /\ overran) => result.ret = "null"


\* ------------------------------------------------------------------------
\* Claims about day matching (SpecMatch)
\* ------------------------------------------------------------------------
MinOf(S) == CHOOSE i \in S : \A j \in S : i <= j

\* the calendar entries that satisfy each step of the matching policy
ByIdentifier ==
    {i \in 1..Len(calendar) :
        /\ desc.identifier # NoValue /\ desc.identifier \in DOMAIN idMap
        /\ Includes(calendar[i].id, idMap[desc.identifier])}

ByDate ==
    {i \in 1..Len(calendar) : desc.date # NoDate /\ calendar[i].key = <<CalendarYear, desc.date>>}

SundayOfSeasonWeek(i) ==
    /\ desc.season # NoValue /\ desc.weekNumber # NoWeek
    /\ calendar[i].dayOfWeek = 0
    /\ calendar[i].season = desc.season
    /\ calendar[i].week = desc.weekNumber

BySeasonWeekCycle ==
    {i \in 1..Len(calendar) : SundayOfSeasonWeek(i) /\ calendar[i].sundayCycle = desc.cycle}

BySeasonWeek == {i \in 1..Len(calendar) : SundayOfSeasonWeek(i)}

\* the steps in the order of the policy
PolicySteps == <<ByIdentifier, ByDate, BySeasonWeekCycle, BySeasonWeek>>

SomeStepSucceeds == \E k \in 1..4 : PolicySteps[k] # {}

FirstSuccess == MinOf({k \in 1..4 : PolicySteps[k] # {}})

\* C5: the matcher returns the result of the first step that succeeds, in the
\* order identifier mapping, date, season+week+cycle, season+week (each step's
\* result being its first entry in catalogue order).
C5_FirstStepWins ==
    (mpc = "done" /\ SomeStepSucceeds) =>
        matched = <<calendar[MinOf(PolicySteps[FirstSuccess])]>>

\* C6: when no entry satisfies any step, the matcher returns no match.
C6_NoMatchWhenNoStep ==
    (mpc = "done" /\ ~SomeStepSucceeds) => matched = <<>>


\* ------------------------------------------------------------------------
\* Claims about the run (SpecBatch)
\* ------------------------------------------------------------------------
\* the cycle letters a row is for, when its tag is well formed: one letter, all
\* three ("ABC"), or none (cycle A by default)
RowLetters(row) ==
    LET t == CycleOf(row.dayText)
    IN  IF t = "ABC" THEN SundayCycles
        ELSE IF t \in SundayCycles THEN {t}
        ELSE IF t = NoValue THEN {"A"}
        ELSE {}

\* the rows of the batch that yield a record for cycle c: described, well
\* tagged, and matched by a calendar day
RowsFor(c) ==
    {i \in 1..Len(rows) :
        /\ rows[i].dayText # <<>>
        /\ c \in RowLetters(rows[i])
        /\ MatchedDays(calendar, <<ReadingInfo(rows[i], c)>>, 1, c) # <<>>}

\* C4: no row makes the run fail: whatever rows the batch holds (a malformed
\* cycle tag such as 'AB', an unparsable citation), the output is written and
\* holds a record for every other row.
C4_NoRowIsFatal ==
    bpc = "done" =>
        /\ written
        /\ \A c \in SundayCycles : Len(output.sundays[c]) = Cardinality(RowsFor(c))

\* ------------------------------------------------------------------------
\* Claims about the citation normalizer (SpecNorm)
\* ------------------------------------------------------------------------
\* the pieces of a text between the occurrences of sep
RECURSIVE Pieces(_, _)
Pieces(s, sep) ==
    IF \E i \in 1..Len(s) : MatchAt(s, i, sep)
    THEN LET i == Least({k \in 1..Len(s) : MatchAt(s, k, sep)})
         IN  <<SubSeq(s, 1, i - 1)>> \o Pieces(From(s, i + Len(sep)), sep)
    ELSE <<s>>

\* the qualifiers a note is made of
Qualifiers(o) == IF o.note = NullText THEN <<>> ELSE Pieces(o.note, <<";", " ">>)

QOptional == <<"o", "p", "t", "i", "o", "n", "a", "l">>

QCf == <<"c", "f", ".">>

QShortForm == <<"s", "h", "o", "r", "t", " ", "f", "o", "r", "m">>

QAlternative == <<"a", "l", "t", "e", "r", "n", "a", "t", "i", "v", "e", "/", "o", "p", "t", "i", "o", "n">>

QCitedIn == <<"c", "i", "t", "e", "d", " ", "i", "n", " ">>

ShortFormMark == <<" ", "(", "s", "h", "o", "r", "t", " ", "f", "o", "r", "m", ")">>

CitedMark == <<" ", "(", "c", "i", "t", "e", "d", " ", "i", "n", " ", "I", "s", "a", " ", "1", ":", "2", ")">>

\* the call has returned for a cell made of candidates
PlainDone == npc = "done" /\ cell \in PlainCells

\* the candidates of the cell that parse
Parsing == {i \in 1..Len(cell.cands) : parser[i] = "osis"}

\* the title a gospel cell ends with
TitleOf == IF isGospel /\ cell.title # <<>> THEN trim(From(cell.title, 3)) ELSE <<>>

\* C7: splitting a cell 'X or Y' yields one option per candidate that parses,
\* in input order (at least one when at least one side parses); when the cell
\* has more than one candidate, every emitted option carries the qualifier
\* 'alternative/option', except an option marked '(short form)', which carries
\* 'short form' instead.
C7_OneOptionPerCandidate ==
    PlainDone =>
        /\ Len(options) = Cardinality(Parsing)
        /\ \A k \in 1..Len(options) : options[k].index \in Parsing
        /\ \A k, l \in 1..Len(options) : k < l => options[k].index < options[l].index
        /\ Parsing # {} => Len(options) >= 1
        /\ Len(cell.cands) > 1 =>
             \A k \in 1..Len(options) :
                 LET q == Range(Qualifiers(options[k]))
                 IN  IF cell.cands[options[k].index].suf = ShortFormMark
                     THEN QShortForm \in q /\ QAlternative \notin q
                     ELSE QAlternative \in q /\ QShortForm \notin q

\* both sides of an 'X or Y' cell parse, and one of them is a short form
C7_Witness ==
    /\ PlainDone /\ Len(cell.cands) = 2 /\ Len(options) = 2
    /\ cell.cands[1].suf = <<>> /\ cell.cands[2].suf = ShortFormMark
    /\ QAlternative \in Range(Qualifiers(options[1]))
    /\ QShortForm \in Range(Qualifiers(options[2]))

\* a second candidate that begins with a bare chapter:verse numeral, and parses
BareSecond ==
    /\ PlainDone /\ Len(cell.cands) = 2
    /\ cell.cands[2].pre = <<>> /\ cell.cands[2].book = <<>>
    /\ parser[2] = "osis"

\* C8: a non-first candidate that begins with a bare chapter:verse numeral is
\* completed with the book name of the first candidate: the standard text of
\* its option is that book name, a space, and the candidate's numbers
\* ('Matt 1:1-25 or 1:18-25' gives 'Matt 1:18-25', 'Rom 5:12-19 or 5:12, 17-19'
\* gives exactly 'Rom 5:12, 17-19').
C8_BookCompletion ==
    BareSecond =>
        \E k \in 1..Len(options) :
            /\ options[k].index = 2
            /\ MatchAt(options[k].referenceStandard, 1,
                       cell.cands[1].book \o <<" ">> \o cell.cands[2].nums)
            /\ (cell.cands[2].suf = <<>> /\ (isGospel \/ cell.title = <<>>)) =>
                   options[k].referenceStandard =
                       cell.cands[1].book \o <<" ">> \o cell.cands[2].nums

\* C9: after normalization the standard text of every emitted option contains
\* no '+': each '+' that joins verses has become a comma, also after a
\* partial-verse letter ('John 11:25a+26') and in a chain of three or more
\* verses ('14+17+19').
C9_NoPlusInStandardText ==
    npc = "done" =>
        \A k \in 1..Len(options) : "+" \notin Range(options[k].referenceStandard)

\* the place of a qualifier in the fixed order: optional, cf., short form or
\* alternative/option, cited in X, gospel title; 0 for a text that is none
Slot(q) ==
    IF q = QOptional THEN 1
    ELSE IF q = QCf THEN 2
    ELSE IF q \in {QShortForm, QAlternative} THEN 3
    ELSE IF MatchAt(q, 1, QCitedIn) /\ Len(q) > Len(QCitedIn) THEN 4
    ELSE IF q # <<>> /\ q = TitleOf THEN 5
    ELSE 0

\* some qualifier applies to candidate i of the cell
QualifierApplies(i) ==
    \/ cell.cands[i].pre # <<>>
    \/ cell.cands[i].suf \in {ShortFormMark, CitedMark}
    \/ Len(cell.cands) > 1
    \/ TitleOf # <<>>

C11_FailedCandidateSkipped ==
    /\ PlainDone =>
          \A i \in 1..Len(cell.cands) :
              (parser[i] = "osis") <=> (\E k \in 1..Len(options) : options[k].index = i)
    /\ npc = "done" =>
          \A k \in 1..Len(options) :
              options[k] # MarkerOption => options[k].referenceOsis # NullText

\* the first candidate makes the parser throw, the second one parses and is
\* the only option
C11_Witness ==
    /\ PlainDone /\ Len(cell.cands) = 2
    /\ parser[1] = "throws" /\ parser[2] = "osis"
    /\ Len(options) = 1 /\ options[1].index = 2
    /\ options[1].referenceOsis # NullText

\* the cell is the sentinel: its trimmed, case-folded text is '(no bibl. ref.)'
IsSentinel == toLowerCase(trim(cell.text)) = Sentinel

\* C12: for the gospel, responsorial-psalm and second-reading slots, a cell
\* whose trimmed, case-folded text equals the sentinel '(no bibl. ref.)'
\* yields an empty option list, not a marker option.
C12_SentinelEmptyPerSlot ==
    (npc = "done" /\ IsSentinel /\
     slot \in {"gospel", "responsorial_psalm", "second_reading"}) => options = <<>>

\* the options of a text that has no block of cycles
BlockOptions(text) == ProcessPlain(text, isGospel, parser)

\* the place of a cycle letter among the blocks, 0 for no letter
BlockIndex(cyc) == IndexOf(<<<<"A">>, <<"B">>, <<"C">>>>, cyc) + 1

\* C13: when a cell contains the three markers 'A:', 'B:' and 'C:',
\* processReference called with cycle letter L returns exactly the options of
\* the sub-block labelled L, none taken from another letter's sub-block, and
\* an empty list when no sub-block matches (also when no letter is given).
C13_OnlyOwnBlock ==
    (npc = "done" /\ cell \in BlockCells) =>
        options = IF BlockIndex(cycle) = 0 THEN <<>>
                  ELSE BlockOptions(cell.blocks[BlockIndex(cycle)])

\* the subtitle a cell ends with, after its dash
Subtitle == trim(From(cell.title, 3))

\* the cells that end with a subtitle
TitledCells == {c \in PlainCells \cup DashCells : c.title # <<>>}

\* C14: for a gospel citation in which an em dash or an en dash separates the
\* citation from a trailing subtitle, the subtitle is the last qualifier of
\* the note of every option of the cell, and the citation alone, without the
\* subtitle, is normalized into the standard text; the split is applied to
\* gospel citations only.
C14_GospelSubtitle ==
    (npc = "done" /\ cell \in TitledCells) =>
        \A k \in 1..Len(options) :
            LET q == Qualifiers(options[k])
            IN  IF isGospel
                THEN /\ q # <<>> /\ q[Len(q)] = Subtitle
                     /\ ~Includes(options[k].referenceStandard, Subtitle)
                ELSE Subtitle \notin Range(q)

\* ------------------------------------------------------------------------
\* Claims about the extraction of the rows (SpecBatch)
\* ------------------------------------------------------------------------
\* the records extracted for cycle key c
ReadingsOf(c) ==
    IF \E i \in 1..Len(readings) : readings[i][1] = c
    THEN readings[CHOOSE i \in 1..Len(readings) : readings[i][1] = c][2]
    ELSE <<>>

\* the cycle letters the tag of a row lists
ListedLetters(row) ==
    LET t == CycleOf(row.dayText)
    IN  IF t = "ABC" THEN {"A", "B", "C"}
        ELSE IF t = "AB" THEN {"A", "B"}
        ELSE IF t \in SundayCycles THEN {t}
        ELSE {}

\* every row of the batch has been extracted, and each has a cycle tag
TaggedRowsExtracted ==
    /\ bpc = "extract" /\ ri > Len(rows)
    /\ \A i \in 1..Len(rows) : ListedLetters(rows[i]) # {}

\* C15: a row whose cycle tag lists several cycle letters ('ABC') yields
\* exactly one record per listed letter, in that letter's Sunday group, a row
\* tagged with one letter yields exactly one record in that letter's group,
\* and no record lands in another group.
C15_OneRecordPerListedLetter ==
    TaggedRowsExtracted =>
        /\ \A c \in SundayCycles :
               Len(ReadingsOf(c)) = Cardinality({i \in 1..Len(rows) : c \in ListedLetters(rows[i])})
        /\ \A i \in 1..Len(readings) : readings[i][1] \in SundayCycles

\* ------------------------------------------------------------------------
\* Claims about the returned verse list (SpecWalk)
\* ------------------------------------------------------------------------
\* verse key p is not after verse key q: book index in the table (-1 for a
\* book the table lacks, as indexOf gives it), then chapter, then verse
NotAfter(p, q) ==
    \/ IndexOf(Books, p[1]) < IndexOf(Books, q[1])
    \/ IndexOf(Books, p[1]) = IndexOf(Books, q[1]) /\ p[2] < q[2]
    \/ IndexOf(Books, p[1]) = IndexOf(Books, q[1]) /\ p[2] = q[2] /\ p[3] <= q[3]

\* C18: the verse list processReference returns is non-decreasing in book
\* index of the table, then chapter, then verse, for every citation that
\* parses, whatever order its entities were enumerated in; it holds the
\* verses that were enumerated, each once.
C18_RangeSorted ==
    (wpc = "done" /\ result.ret = "object") =>
        /\ \A i, j \in 1..Len(result.range) :
               i < j => NotAfter(result.range[i], result.range[j])
        /\ Range(result.range) = Range(verses)
        /\ Len(result.range) = Len(verses)

\* two entities enumerated against the order of the table: the verses were
\* added out of order and are returned in order
C18_Witness ==
    /\ wpc = "done" /\ result.ret = "object" /\ Len(entities) = 2
    /\ Len(verses) >= 3
    /\ ~NotAfter(verses[1], verses[Len(verses)])
    /\ result.range # verses

\* the citation is one whole-chapter entity for a chapter of the table
OneChapter ==
    /\ Len(entities) = 1 /\ entities[1].type = "bc"
    /\ entities[1].start.b \in KnownBooks
    /\ HasChapter(entities[1].start.b, entities[1].start.c)

\* C19: enumerating a whole-chapter entity adds exactly one verse for each
\* number from 1 to the verse count the table declares for that chapter, and
\* nothing else.
C19_WholeChapter ==
    (OneChapter /\ wpc = "done") =>
        LET b == entities[1].start.b
            c == entities[1].start.c
        IN  /\ Range(verses) = {VerseKey(b, c, v, "") : v \in 1..Chapters[b][c]}
            /\ Len(verses) = Chapters[b][c]
            /\ result.ret = "object"

\* the second chapter of Genesis has been enumerated
C19_Witness ==
    /\ OneChapter /\ wpc = "done"
    /\ entities[1].start.b = "Gen" /\ entities[1].start.c = 2
    /\ Len(verses) = Chapters["Gen"][2]

\* ------------------------------------------------------------------------
\* C16: every record the CSV build writes, in a Sunday group or in a weekday
\* group, carries all five reading-slot lists (first_reading,
\* responsorial_psalm, second_reading, gospel_acclamation, gospel).
\* ------------------------------------------------------------------------
C16_FiveSlotsEverywhere ==
    cpc = "done" =>
        \A g \in CsvGroups : \A k \in 1..Len(csvOutput[g]) :
            DOMAIN csvOutput[g][k].readings = ReadingSlots

\* the rows of the files in the opposite order of processing
Swapped(files) == [i \in 1..Len(files) |-> Reverse(files[Len(files) + 1 - i])]

RECURSIVE MergedReadings(_)
MergedReadings(files) ==
    IF files = <<>> THEN [g \in CsvGroups |-> <<>>]
    ELSE LET before == MergedReadings(SubSeq(files, 1, Len(files) - 1))
             last   == extractReadingsFromCSV(files[Len(files)])
         IN  [g \in CsvGroups |-> before[g] \o last[g]]

\* what the build writes for the files, read in the order given
BuiltOutput(files) ==
    LET all == MergedReadings(files)
    IN  [g \in CsvGroups |->
            IF g \in SundayGroups
            THEN SortDays("liturgical", SundayDays(all[g], romcalDefinitions, computedProperties))
            ELSE SortWeekdayGroup(WeekdayDays(all[g], romcalDefinitions, computedProperties))]

\* ------------------------------------------------------------------------
\* C17: the order of the records inside each output group after the final
\* sort does not depend on the order in which the rows were processed: the
\* same rows read in the opposite order give the same groups.
\* ------------------------------------------------------------------------
C17_OrderIndependentOfRows ==
    cpc = "done" => BuiltOutput(Swapped(csvFiles)) = csvOutput

C21_LetterOnFirstVerseOnly ==
    (OneRange /\ wpc = "done" /\ result.ret = "object") =>
        \A k \in 2..Len(verses) : verses[k][4] = ""

\* ------------------------------------------------------------------------
\* C22: in the returned list a verse of a book the table does not have comes
\* after every verse of a known book, and two verses of unknown books stand in
\* the order in which they were added.
\* ------------------------------------------------------------------------
PlaceIn(s, x) == IndexOf(s, x)

C22_UnknownBooksLast ==
    (wpc = "done" /\ result.ret = "object") =>
        \A i, j \in 1..Len(result.range) :
            LET p == result.range[i]
                q == result.range[j]
            IN  /\ (p[1] \notin KnownBooks /\ q[1] \in KnownBooks) => j < i
                /\ (p[1] \notin KnownBooks /\ q[1] \notin KnownBooks /\ i < j) =>
                        PlaceIn(verses, p) < PlaceIn(verses, q)

\* ------------------------------------------------------------------------
\* C23: when no entry matches by identifier, by date or by season, week and
\* cycle, and some Sunday entry matches the season and the week of the
\* description, the matcher returns the first such entry in catalogue order.
\* ------------------------------------------------------------------------
C23_SeasonWeekFallback ==
    (/\ mpc = "done"
     /\ ByIdentifier = {} /\ ByDate = {} /\ BySeasonWeekCycle = {}
     /\ BySeasonWeek # {}) =>
        matched = <<calendar[MinOf(BySeasonWeek)]>>

\* ------------------------------------------------------------------------
\* C24: when the identifier of a feast has no entry in the fixed table of
\* identifiers, the matcher goes on to keyword scoring: the record gets the
\* best-scoring catalogue entry for the words of the description whenever
\* some entry scores above 0.
\* ------------------------------------------------------------------------
C24_KeywordScoringAfterTable ==
    (/\ fpc = "attached" /\ feastReading[1].isFeast
     /\ feastMappings_Sundays(feastReading[1].feastIdentifier) = NoTokens
     /\ findFeastByKeywords(feastCatalogue, feastReading[1].feastIdentifier) # <<>>) =>
        feastDay[1].romcalKey =
            findFeastByKeywords(feastCatalogue, feastReading[1].feastIdentifier)[1].id

\* the entries with both an id and a name
HasIdAndName == {i \in 1..Len(feastCatalogue) :
                    feastCatalogue[i].id # NoTokens /\ feastCatalogue[i].name # NoWords}

\* the number of keywords found among the words
FoundIn(words) ==
    Cardinality({j \in 1..Len(feastKeywords) :
                    \E w \in Range(words) : toLowerWord(w) = toLowerWord(feastKeywords[j])})

ScoreOf(i) == FoundIn(feastCatalogue[i].id) + 2 * FoundIn(feastCatalogue[i].name)

Best == {i \in HasIdAndName : ScoreOf(i) > 0 /\ \A j \in HasIdAndName : ScoreOf(j) <= ScoreOf(i)}

\* ------------------------------------------------------------------------
\* C25: findFeastByKeywords considers only the entries with an id and a name,
\* scores each as (keywords found in the id) + 2 x (keywords found in the
\* name), returns the earliest entry in catalogue order among those of the
\* greatest score when that score is above 0, and no match when every entry
\* scores 0.
\* ------------------------------------------------------------------------
C25_BestKeywordScore ==
    fpc = "scored" =>
        keywordMatch = IF Best = {} THEN <<>> ELSE <<feastCatalogue[MinOf(Best)]>>

C25_Witness ==
    /\ fpc = "scored" /\ Len(feastCatalogue) = 3
    /\ 1 \notin HasIdAndName /\ FoundIn(feastCatalogue[1].id) + FoundIn(feastCatalogue[1].name) > 0
    /\ Best = {2, 3}
    /\ keywordMatch = <<feastCatalogue[2]>>

\* the option emitted for candidate i of the cell, if any
OptionsOf(i) == {k \in 1..Len(options) : options[k].index = i}

\* the text handed to the parser for an option
ParserText(o) == Tail(o.referenceOsis)

OptToken == <<"o", "p", "t", ":">>

OptCfPrefix == <<"o", "p", "t", ":", " ", "c", "f", ".", " ">>

\* C26: a candidate that carries an 'opt:' prefix followed by a leading 'cf.'
\* token has both stripped: the note of its option begins 'optional; cf.', and
\* neither token remains in the text handed to the parser or in the standard
\* text.
C26_OptThenCfStripped ==
    PlainDone =>
        \A i \in 1..Len(cell.cands) :
            cell.cands[i].pre = OptCfPrefix =>
                \A k \in OptionsOf(i) :
                    /\ MatchAt(options[k].note, 1, QOptional \o <<";", " ">> \o QCf)
                    /\ ~IncludesCI(options[k].referenceStandard, OptToken)
                    /\ ~IncludesCI(options[k].referenceStandard, QCf)
                    /\ ~IncludesCI(ParserText(options[k]), OptToken)
                    /\ ~IncludesCI(ParserText(options[k]), QCf)

\* C27: a '(cited in X)' parenthetical in a candidate is extracted: the note of
\* its option carries 'cited in X', and the parenthetical is absent from the
\* text handed to the parser and from the standard text of the option.
C27_CitationExtracted ==
    PlainDone =>
        \A i \in 1..Len(cell.cands) :
            cell.cands[i].suf = CitedMark =>
                \A k \in OptionsOf(i) :
                    /\ (QCitedIn \o <<"I", "s", "a", " ", "1", ":", "2">>) \in Range(Qualifiers(options[k]))
                    /\ ~IncludesCI(options[k].referenceStandard, <<"(", "c", "i", "t", "e", "d">>)
                    /\ ~IncludesCI(ParserText(options[k]), <<"(", "c", "i", "t", "e", "d">>)

\* C28: book-name completion never alters a non-first candidate that names its
\* own book, also a book whose name begins with a digit: for 'X or 2 Cor 1:1-3'
\* the second candidate is handed to the parser as '2 Cor 1:1-3', nothing put
\* before it.
C28_NamedCandidateUntouched ==
    (PlainDone /\ Len(cell.cands) = 2 /\ cell.cands[2].book # <<>>) =>
        \A k \in OptionsOf(2) :
            /\ MatchAt(ParserText(options[k]), 1, cell.cands[2].book \o <<" ">> \o cell.cands[2].nums)
            /\ MatchAt(options[k].referenceStandard, 1, cell.cands[2].book \o <<" ">> \o cell.cands[2].nums)

\* C29: the name put before a bare second candidate is the scriptural book
\* name of the first candidate also when the first candidate begins with an
\* 'opt:' or 'cf.' prefix: 'cf. Matt 1:1-25 or 1:18-25' completes the second
\* candidate to 'Matt 1:18-25', never to a text that starts with the prefix
\* token.
C29_CompletionSkipsPrefix ==
    (BareSecond /\ cell.cands[1].pre # <<>>) =>
        \A k \in OptionsOf(2) :
            MatchAt(options[k].referenceStandard, 1,
                    cell.cands[1].book \o <<" ">> \o cell.cands[2].nums)

\* the names the rows of a group were given when they were read
LocalNames(g) == {csvAllReadings[g][i].feastName : i \in 1..Len(csvAllReadings[g])}

\* the entries of the catalogue with a given id
EntriesWithId(id) == {i \in 1..Len(romcalDefinitions) : romcalDefinitions[i].id = id}

\* C30: for a weekday row the catalogue entry attached to the record (its
\* romcalKey and name) is an entry of the row's own season and week; a weekday
\* row of a season for which the catalogue has no matching entry gets
\* romcalKey null and its locally derived name, never the entry of a
\* different season.
C30_WeekdayEntryOfOwnSeason ==
    cpc = "done" =>
        \A g \in WeekdayGroups : \A k \in 1..Len(csvOutput[g]) :
            LET rec == csvOutput[g][k]
            IN  IF rec.romcalKey = NoTokens
                THEN rec.name \in LocalNames(g)
                ELSE /\ EntriesWithId(rec.romcalKey) # {}
                     /\ rec.romcalKey[1] = rec.identifier[1]
                     /\ "octave" \notin Range(rec.identifier) =>
                            WeekToken(rec.week) \in Range(rec.romcalKey)

====
